---- MODULE Spec2Model ----
(***************************************************************************)
(* ToDoList: the service layer (ProjectService, TaskService) over the      *)
(* durable storage backend (SqlAlchemyStorage), and the overdue-task       *)
(* auto-close job.                                                         *)
(*                                                                         *)
(* Strings are sequences of characters, dates are day numbers, the tables  *)
(* "projects" and "tasks" are sets of rows.  Each service method is an     *)
(* operator from the stored state and the arguments to the new stored      *)
(* state, the error raised (or "ok") and the value returned; each action   *)
(* of the specification is one whole call of a service method.             *)
(*                                                                         *)
(* Spec: the service calls over the durable store.  IdSpec: the create and *)
(* delete calls with the history of the ids given.  MemSpec: the volatile  *)
(* backend (InMemoryStorage), whose store holds the objects themselves.    *)
(* SchedSpec: the scheduler process of cron_autoclose.py.  PairSpec: the   *)
(* same service calls on a durable and on a volatile store.  TickSpec: the *)
(* passes of the job between the calls that change tasks, with the history *)
(* of the tasks the job closed.  ConcSpec: one pass of the job, storage    *)
(* call by storage call, beside the service calls of another process.      *)
(* StampSpec: the task objects of the volatile store, which carry          *)
(* closed_at.                                                              *)
(***************************************************************************)
EXTENDS Integers, Sequences, FiniteSets, TLC

VARIABLES
    db,     \* the durable store: [projects |-> set of rows, tasks |-> set of rows]
    last,   \* the outcome of the last service call, until the caller has taken it
    given,  \* the identifiers handed out so far, in the order they were given
    mem,    \* the volatile store: the live Project objects and the id counters
    sched,  \* the auto-close scheduler process (cron_autoclose.main)
    pass,   \* the auto-close pass in progress, when it runs beside the menu
    closures \* the tasks the auto-close job has closed, in the order of closing

vars == <<db, last, given, mem, sched, pass, closures>>

\* the auto-close pass as a process of its own, and its history
job == <<pass, closures>>

\* the state outside the service layer over the durable store
others == <<given, mem, sched, pass, closures>>

---------------------------------------------------------------------------
(* Bounds of the model *)

\* largest project id the model lets get_next_project_id hand out
MaxProjectId == 3
\* largest task id the model lets get_next_task_id hand out
MaxTaskId == 2
\* number of distinct deadline days
MaxDay == 1

---------------------------------------------------------------------------
(* Configuration (Config) *)

\* Config.MAX_PROJECTS, read from MAX_NUMBER_OF_PROJECT
MAX_PROJECTS == 2
\* Config.MAX_TASKS_PER_PROJECT, read from MAX_NUMBER_OF_TASK
MAX_TASKS_PER_PROJECT == 2
\* longest project name / task title
MaxNameLen == 30
\* longest description
MaxDescLen == 150

---------------------------------------------------------------------------
(* Values *)

\* Python's None where a date is expected
NoDate == 0
\* a Task object on which the attribute closed_at was never set
NoAttr == 0 - 1
\* a deadline argument that is not a date object
NotADate == 0 - 2
\* Python's None where a string argument is expected
NoneArg == <<"<None>">>
\* Python's None where a status argument is expected
NoStatus == "<None>"

\* isinstance(x, date)
IsDate(x) == x >= 1

Ok == "ok"
ValidationError == "ValidationError"
LimitExceededError == "LimitExceededError"
NotFoundError == "NotFoundError"
DuplicateError == "DuplicateError"

Statuses == {"todo", "doing", "done"}

\* str.lower() on one character
LowerChar(c) ==
    CASE c = "A" -> "a"
      [] c = "B" -> "b"
      [] c = "D" -> "d"
      [] OTHER -> c

\* str.lower()
Lower(s) == [i \in DOMAIN s |-> LowerChar(s[i])]

\* str.strip(): leading and trailing whitespace removed
RECURSIVE LStrip(_)
LStrip(s) ==
    IF s # <<>> /\ Head(s) = " " THEN LStrip(Tail(s)) ELSE s

RECURSIVE RStrip(_)
RStrip(s) ==
    IF s # <<>> /\ s[Len(s)] = " " THEN RStrip(SubSeq(s, 1, Len(s) - 1)) ELSE s

Strip(s) == RStrip(LStrip(s))

\* n copies of the character c
Repeat(c, n) == [i \in 1..n |-> c]

---------------------------------------------------------------------------
(* Validation policy (core/config.py): TRUE when no ValidationError is raised *)

validate_project_name(name) ==
    /\ ~(name = <<>> \/ Len(Strip(name)) = 0)
    /\ ~(Len(name) > MaxNameLen)

validate_project_description(description) ==
    ~(Len(description) > MaxDescLen)

validate_task_title(title) ==
    /\ ~(title = <<>> \/ Len(Strip(title)) = 0)
    /\ ~(Len(title) > MaxNameLen)

\* validate_task_description without the length limit
validate_task_description_NoLimit(description) == TRUE

validate_task_description(description) ==
    ~(Len(description) > MaxDescLen)

---------------------------------------------------------------------------
(* Entities (core/project.py, core/task.py) *)

\* Task(id_, title, description, status, deadline): closed_at is not set
Task(id, title, description, status, deadline, today) ==
    [id |-> id, title |-> title, description |-> description,
     status |-> status, deadline |-> deadline, created_at |-> today,
     closed_at |-> NoAttr]

\* Project(id_, name, description): no tasks
Project(id, name, description, today) ==
    [id |-> id, name |-> name, description |-> description,
     tasks |-> <<>>, created_at |-> today]

\* date.today() when an entity is created by a service call
CreationDay == 1
\* date.today() when an entity is rebuilt from its row: a later day
LoadDay == CreationDay + 1

\* the elements of a sequence
Range(s) == {s[i] : i \in DOMAIN s}

\* Project.get_task(task_id): the index of the task, 0 for None
TaskIndex(project, task_id) ==
    IF \E i \in DOMAIN project.tasks : project.tasks[i].id = task_id
    THEN CHOOSE i \in DOMAIN project.tasks :
            /\ project.tasks[i].id = task_id
            /\ \A j \in 1..(i - 1) : project.tasks[j].id # task_id
    ELSE 0

\* Project.get_task_count()
get_task_count(project) == Len(project.tasks)

---------------------------------------------------------------------------
(* Durable backend (storage/sqlalchemy_storage.py) *)

\* the rows of a set, as a sequence ordered by ascending id
RECURSIVE SortById(_)
SortById(rows) ==
    IF rows = {} THEN <<>>
    ELSE LET m == CHOOSE r \in rows : \A q \in rows : r.id <= q.id
         IN  <<m>> \o SortById(rows \ {m})

\* TaskModel(...) in save_project: the columns of a row of "tasks"
TaskRow(task, project_id) ==
    [id |-> task.id, title |-> task.title, description |-> task.description,
     status |-> task.status, deadline |-> task.deadline,
     created_at |-> task.created_at, project_id |-> project_id]

\* Task(...) in get_project / list_projects: the object built from a row
TaskOfRow(row) ==
    [Task(row.id, row.title, row.description, row.status, row.deadline, LoadDay)
        EXCEPT !.created_at = row.created_at]

\* db_project.tasks: the rows of "tasks" that reference the project
TaskRowsOf(d, project_id) == {r \in d.tasks : r.project_id = project_id}

\* Project(...) in get_project / list_projects: the object built from a row
ProjectOfRow(d, row) ==
    LET db_tasks == SortById(TaskRowsOf(d, row.id)) IN
    [Project(row.id, row.name, row.description, LoadDay)
        EXCEPT !.created_at = row.created_at,
               !.tasks = [i \in DOMAIN db_tasks |-> TaskOfRow(db_tasks[i])]]

ProjectIds(d) == {r.id : r \in d.projects}

\* session.get(ProjectModel, id)
ProjectRowOf(d, project_id) == CHOOSE r \in d.projects : r.id = project_id

\* save_project without db_project.tasks.clear(): rows of tasks that are not
\* in the passed project stay
save_project_Merge(d, project) ==
    [projects |->
        {r \in d.projects : r.id # project.id} \cup
        {[id |-> project.id, name |-> project.name,
          description |-> project.description,
          created_at |-> project.created_at]},
     tasks |->
        {r \in d.tasks : \A i \in DOMAIN project.tasks :
                            r.id # project.tasks[i].id} \cup
        {TaskRow(project.tasks[i], project.id) : i \in DOMAIN project.tasks}]

\* SqlAlchemyStorage.save_project
save_project(d, project) ==
    [projects |->
        {r \in d.projects : r.id # project.id} \cup
        {[id |-> project.id, name |-> project.name,
          description |-> project.description,
          created_at |-> project.created_at]},
     tasks |->
        {r \in d.tasks : r.project_id # project.id} \cup
        {TaskRow(project.tasks[i], project.id) : i \in DOMAIN project.tasks}]

\* SqlAlchemyStorage.get_project: [err, project]
get_project(d, project_id) ==
    IF project_id \notin ProjectIds(d)
    THEN [err |-> NotFoundError]
    ELSE [err |-> Ok, project |-> ProjectOfRow(d, ProjectRowOf(d, project_id))]

\* delete_project without the cascade: the project's task rows stay
storage_delete_project_NoCascade(d, project_id) ==
    [projects |-> {r \in d.projects : r.id # project_id},
     tasks |-> d.tasks]

\* SqlAlchemyStorage.delete_project (the caller has checked existence)
storage_delete_project(d, project_id) ==
    [projects |-> {r \in d.projects : r.id # project_id},
     tasks |-> {r \in d.tasks : r.project_id # project_id}]

\* SqlAlchemyStorage.list_projects
list_projects(d) ==
    LET result == SortById(d.projects) IN
    [i \in DOMAIN result |-> ProjectOfRow(d, result[i])]

\* max of a finite set of naturals, None (0) when empty
MaxOrZero(S) == IF S = {} THEN 0 ELSE CHOOSE m \in S : \A x \in S : x <= m

\* SqlAlchemyStorage.get_next_project_id
get_next_project_id(d) == MaxOrZero(ProjectIds(d)) + 1

\* SqlAlchemyStorage.get_next_task_id
get_next_task_id(d) == MaxOrZero({r.id : r \in d.tasks}) + 1

\* the store after get_next_project_id or get_next_task_id has returned:
\* the session of the call only reads, nothing is added or committed
AfterGetNextId(d) == d

---------------------------------------------------------------------------
(* Results of a service call *)

\* the call raised err: nothing was written
Raise(d, e) == [db |-> d, err |-> e, ret |-> 0, saves |-> <<>>]

\* the call returned ret; saves is the log of the save_project calls of an
\* auto-close pass (the project ids, in call order)
Return(d, r, s) == [db |-> d, err |-> Ok, ret |-> r, saves |-> s]

---------------------------------------------------------------------------
(* ProjectService (service/project_service.py) *)

\* ProjectLimitReached with ">" for ">="
ProjectLimitReached_OffByOne(existing_projects) ==
    Len(existing_projects) > MAX_PROJECTS

\* ProjectLimitReached counting the projects ever created (the highest id
\* given) instead of the projects stored
ProjectLimitReached_EverCreated(existing_projects) ==
    MaxOrZero({existing_projects[i].id : i \in DOMAIN existing_projects})
        >= MAX_PROJECTS

\* create_project: the maximum projects limit is reached
ProjectLimitReached(existing_projects) ==
    Len(existing_projects) >= MAX_PROJECTS

\* ProjectNameTaken without .lower(): names are compared as written
ProjectNameTaken_CaseSensitive(existing_projects, name) ==
    \E i \in DOMAIN existing_projects : existing_projects[i].name = name

\* create_project: some existing project has the name, letter case ignored
ProjectNameTaken(existing_projects, name) ==
    \E i \in DOMAIN existing_projects :
        Lower(existing_projects[i].name) = Lower(name)

\* OtherProjectNameTaken without "p.id != project_id": the project's own
\* name counts as taken
OtherProjectNameTaken_IncludingSelf(existing_projects, project_id, name) ==
    \E i \in DOMAIN existing_projects :
        Lower(existing_projects[i].name) = Lower(name)

\* update_project: some other project has the name, letter case ignored
OtherProjectNameTaken(existing_projects, project_id, name) ==
    \E i \in DOMAIN existing_projects :
        /\ existing_projects[i].id # project_id
        /\ Lower(existing_projects[i].name) = Lower(name)

\* create_project with the duplicate check before the limit check
create_project_DuplicateFirst(d, name, description, today) ==
    IF ~validate_project_name(name) THEN Raise(d, ValidationError)
    ELSE IF ~validate_project_description(description) THEN Raise(d, ValidationError)
    ELSE LET existing_projects == list_projects(d) IN
    IF ProjectNameTaken(existing_projects, name) THEN Raise(d, DuplicateError)
    ELSE IF ProjectLimitReached(existing_projects) THEN Raise(d, LimitExceededError)
    ELSE LET project_id == get_next_project_id(d)
             project == Project(project_id, name, description, today)
         IN  Return(save_project(d, project), project_id, <<>>)

\* ProjectService.create_project
create_project(d, name, description, today) ==
    IF ~validate_project_name(name) THEN Raise(d, ValidationError)
    ELSE IF ~validate_project_description(description) THEN Raise(d, ValidationError)
    ELSE LET existing_projects == list_projects(d) IN
    IF ProjectLimitReached(existing_projects) THEN Raise(d, LimitExceededError)
    ELSE IF ProjectNameTaken(existing_projects, name) THEN Raise(d, DuplicateError)
    ELSE LET project_id == get_next_project_id(d)
             project == Project(project_id, name, description, today)
         IN  Return(save_project(d, project), project_id, <<>>)

\* ProjectService.delete_project
delete_project(d, project_id) ==
    IF get_project(d, project_id).err # Ok THEN Raise(d, NotFoundError)
    ELSE Return(storage_delete_project(d, project_id), 0, <<>>)

\* ProjectService.update_project
update_project(d, project_id, name, description) ==
    LET g == get_project(d, project_id) IN
    IF g.err # Ok THEN Raise(d, NotFoundError)
    ELSE IF ~validate_project_name(name) THEN Raise(d, ValidationError)
    ELSE IF ~validate_project_description(description) THEN Raise(d, ValidationError)
    ELSE LET existing_projects == list_projects(d) IN
    IF OtherProjectNameTaken(existing_projects, project_id, name)
    THEN Raise(d, DuplicateError)
    ELSE LET project == [g.project EXCEPT !.name = name,
                                          !.description = description]
         IN  Return(save_project(d, project), project_id, <<>>)

---------------------------------------------------------------------------
(* TaskService (service/task_service.py) *)

\* TaskLimitReached with ">" for ">="
TaskLimitReached_OffByOne(project) ==
    get_task_count(project) > MAX_TASKS_PER_PROJECT

\* create_task: the maximum tasks per project limit is reached
TaskLimitReached(project) ==
    get_task_count(project) >= MAX_TASKS_PER_PROJECT

\* create_task: some task of the project has the title, letter case ignored
TitleTaken(project, title) ==
    \E i \in DOMAIN project.tasks :
        Lower(project.tasks[i].title) = Lower(title)

\* OtherTitleTaken without .lower(): titles are compared as written
OtherTitleTaken_CaseSensitive(project, task_id, title) ==
    \E j \in DOMAIN project.tasks :
        /\ project.tasks[j].id # task_id
        /\ project.tasks[j].title = title

\* update_task: some other task of the project has the title, letter case
\* ignored
OtherTitleTaken(project, task_id, title) ==
    \E j \in DOMAIN project.tasks :
        /\ project.tasks[j].id # task_id
        /\ Lower(project.tasks[j].title) = Lower(title)

\* create_task with the duplicate title checked before the task limit
create_task_DuplicateFirst(d, project_id, title, description, status, deadline, today) ==
    LET g == get_project(d, project_id) IN
    IF g.err # Ok THEN Raise(d, NotFoundError)
    ELSE IF ~validate_task_title(title) THEN Raise(d, ValidationError)
    ELSE IF ~validate_task_description(description) THEN Raise(d, ValidationError)
    ELSE IF status \notin Statuses THEN Raise(d, ValidationError)
    ELSE IF deadline # NoDate /\ ~IsDate(deadline) THEN Raise(d, ValidationError)
    ELSE IF TitleTaken(g.project, title) THEN Raise(d, DuplicateError)
    ELSE IF TaskLimitReached(g.project) THEN Raise(d, LimitExceededError)
    ELSE LET task_id == get_next_task_id(d)
             task == Task(task_id, title, description, status, deadline, today)
             project == [g.project EXCEPT !.tasks = Append(@, task)]
         IN  Return(save_project(d, project), task_id, <<>>)

\* TaskService.create_task
create_task(d, project_id, title, description, status, deadline, today) ==
    LET g == get_project(d, project_id) IN
    IF g.err # Ok THEN Raise(d, NotFoundError)
    ELSE IF ~validate_task_title(title) THEN Raise(d, ValidationError)
    ELSE IF ~validate_task_description(description) THEN Raise(d, ValidationError)
    ELSE IF status \notin Statuses THEN Raise(d, ValidationError)
    ELSE IF deadline # NoDate /\ ~IsDate(deadline) THEN Raise(d, ValidationError)
    ELSE IF TaskLimitReached(g.project) THEN Raise(d, LimitExceededError)
    ELSE IF TitleTaken(g.project, title) THEN Raise(d, DuplicateError)
    ELSE LET task_id == get_next_task_id(d)
             task == Task(task_id, title, description, status, deadline, today)
             project == [g.project EXCEPT !.tasks = Append(@, task)]
         IN  Return(save_project(d, project), task_id, <<>>)

\* update_task that stores the deadline argument even when it is None
update_task_ClearsDeadline(d, project_id, task_id, title, description, status, deadline) ==
    LET g == get_project(d, project_id) IN
    IF g.err # Ok THEN Raise(d, NotFoundError)
    ELSE LET i == TaskIndex(g.project, task_id) IN
    IF i = 0 THEN Raise(d, NotFoundError)
    ELSE IF title # NoneArg /\ ~validate_task_title(title)
    THEN Raise(d, ValidationError)
    ELSE IF title # NoneArg /\ OtherTitleTaken(g.project, task_id, title)
    THEN Raise(d, DuplicateError)
    ELSE IF description # NoneArg /\ ~validate_task_description(description)
    THEN Raise(d, ValidationError)
    ELSE IF status # NoStatus /\ status \notin Statuses
    THEN Raise(d, ValidationError)
    ELSE IF deadline # NoDate /\ ~IsDate(deadline)
    THEN Raise(d, ValidationError)
    ELSE LET old == g.project.tasks[i]
             task == [old EXCEPT
                        !.title = IF title # NoneArg THEN title ELSE @,
                        !.description =
                            IF description # NoneArg THEN description ELSE @,
                        !.status = IF status # NoStatus THEN status ELSE @,
                        !.deadline = deadline]
             project == [g.project EXCEPT !.tasks[i] = task]
         IN  Return(save_project(d, project), task_id, <<>>)

\* TaskService.update_task
update_task(d, project_id, task_id, title, description, status, deadline) ==
    LET g == get_project(d, project_id) IN
    IF g.err # Ok THEN Raise(d, NotFoundError)
    ELSE LET i == TaskIndex(g.project, task_id) IN
    IF i = 0 THEN Raise(d, NotFoundError)
    ELSE IF title # NoneArg /\ ~validate_task_title(title)
    THEN Raise(d, ValidationError)
    ELSE IF title # NoneArg /\ OtherTitleTaken(g.project, task_id, title)
    THEN Raise(d, DuplicateError)
    ELSE IF description # NoneArg /\ ~validate_task_description(description)
    THEN Raise(d, ValidationError)
    ELSE IF status # NoStatus /\ status \notin Statuses
    THEN Raise(d, ValidationError)
    ELSE IF deadline # NoDate /\ ~IsDate(deadline)
    THEN Raise(d, ValidationError)
    ELSE LET old == g.project.tasks[i]
             task == [old EXCEPT
                        !.title = IF title # NoneArg THEN title ELSE @,
                        !.description =
                            IF description # NoneArg THEN description ELSE @,
                        !.status = IF status # NoStatus THEN status ELSE @,
                        !.deadline = IF deadline # NoDate THEN deadline ELSE @]
             project == [g.project EXCEPT !.tasks[i] = task]
         IN  Return(save_project(d, project), task_id, <<>>)

\* the position of a status in the order todo, doing, done
StatusRank(status) ==
    CASE status = "todo" -> 1 [] status = "doing" -> 2 [] OTHER -> 3

\* change_task_status that refuses to move a task back in the order todo,
\* doing, done
change_task_status_ForwardOnly(d, project_id, task_id, new_status) ==
    IF new_status \notin Statuses THEN Raise(d, ValidationError)
    ELSE IF \E r \in d.tasks : /\ r.id = task_id
                               /\ r.project_id = project_id
                               /\ StatusRank(new_status) < StatusRank(r.status)
    THEN Raise(d, ValidationError)
    ELSE update_task(d, project_id, task_id, NoneArg, NoneArg, new_status, NoDate)

\* TaskService.change_task_status
change_task_status(d, project_id, task_id, new_status) ==
    IF new_status \notin Statuses THEN Raise(d, ValidationError)
    ELSE update_task(d, project_id, task_id, NoneArg, NoneArg, new_status, NoDate)

\* a sequence without its i-th element (list.remove of that element)
RemoveAt(s, i) == [j \in 1..(Len(s) - 1) |-> IF j < i THEN s[j] ELSE s[j + 1]]

\* TaskService.delete_task
delete_task(d, project_id, task_id) ==
    LET g == get_project(d, project_id) IN
    IF g.err # Ok THEN Raise(d, NotFoundError)
    ELSE LET i == TaskIndex(g.project, task_id) IN
    IF i = 0 THEN Raise(d, NotFoundError)
    ELSE LET project == [g.project EXCEPT !.tasks = RemoveAt(@, i)]
         IN  Return(save_project(d, project), 0, <<>>)

\* bool(status_filter): None and the empty string are false
Truthy(status_filter) == status_filter # NoStatus /\ status_filter # ""

\* Project.list_tasks with a valid filter: the tasks of that status, in the
\* order of project.tasks
project_list_tasks(project, status_filter) ==
    SelectSeq(project.tasks, LAMBDA task : task.status = status_filter)

\* TaskService.list_tasks
list_tasks(d, project_id, status_filter) ==
    LET g == get_project(d, project_id) IN
    IF g.err # Ok THEN Raise(d, NotFoundError)
    ELSE IF Truthy(status_filter)
    THEN IF status_filter \notin Statuses THEN Raise(d, ValidationError)
         ELSE Return(d, project_list_tasks(g.project, status_filter), <<>>)
    ELSE Return(d, g.project.tasks, <<>>)

\* Overdue with "deadline <= today": tasks due today are closed as well
Overdue_DueToday(task, today) ==
    /\ task.deadline # NoDate
    /\ task.deadline <= today
    /\ task.status # "done"

\* Overdue without the status test: done tasks are closed again
Overdue_DoneToo(task, today) ==
    /\ task.deadline # NoDate
    /\ task.deadline < today

\* the condition of the auto-close loop on one task
Overdue(task, today) ==
    /\ task.deadline # NoDate
    /\ task.deadline < today
    /\ task.status # "done"

\* CloseTasks without "task.status = done": the overdue tasks are stamped
\* and keep their status
CloseTasks_StampOnly(project, today) ==
    [i \in DOMAIN project.tasks |->
        IF Overdue(project.tasks[i], today)
        THEN [project.tasks[i] EXCEPT !.closed_at = today]
        ELSE project.tasks[i]]

\* the inner loop of autoclose_overdue_tasks: the project's tasks after it
CloseTasks(project, today) ==
    [i \in DOMAIN project.tasks |->
        IF Overdue(project.tasks[i], today)
        THEN [project.tasks[i] EXCEPT !.status = "done", !.closed_at = today]
        ELSE project.tasks[i]]

\* the number of tasks the inner loop updates in a project
CountOverdue(project, today) ==
    Cardinality({i \in DOMAIN project.tasks : Overdue(project.tasks[i], today)})

\* the outer loop of autoclose_overdue_tasks from the i-th project on
RECURSIVE AutocloseFrom(_, _, _, _, _, _)
AutocloseFrom(d, projects, i, today, updated_count, saves) ==
    IF i > Len(projects) THEN Return(d, updated_count, saves)
    ELSE LET n == CountOverdue(projects[i], today)
             changed == n > 0
             project == [projects[i] EXCEPT !.tasks = CloseTasks(projects[i], today)]
         IN  IF changed
             THEN AutocloseFrom(save_project(d, project), projects, i + 1, today,
                                updated_count + n, Append(saves, project.id))
             ELSE AutocloseFrom(d, projects, i + 1, today, updated_count, saves)

\* autoclose_overdue_tasks without "if changed": every project is saved
autoclose_SaveAll(d, today) ==
    LET projects == list_projects(d)
        r == AutocloseFrom(d, projects, 1, today, 0, <<>>)
    IN  [r EXCEPT !.saves = [i \in DOMAIN projects |-> projects[i].id]]

\* TaskService.autoclose_overdue_tasks
autoclose_overdue_tasks(d, today) ==
    AutocloseFrom(d, list_projects(d), 1, today, 0, <<>>)

---------------------------------------------------------------------------
(* Entity update (core/task.py) *)

\* Task.update_task: each provided field is validated and assigned in turn;
\* [task, err]: the task object after the call and the error raised
task_update_task(task, title, description, status, deadline) ==
    LET t1 == IF title # NoneArg THEN [task EXCEPT !.title = title] ELSE task
        t2 == IF description # NoneArg
              THEN [t1 EXCEPT !.description = description] ELSE t1
        t3 == IF status # NoStatus THEN [t2 EXCEPT !.status = status] ELSE t2
        t4 == IF deadline # NoDate THEN [t3 EXCEPT !.deadline = deadline] ELSE t3
    IN  IF title # NoneArg /\ ~validate_task_title(title)
        THEN [task |-> task, err |-> ValidationError]
        ELSE IF description # NoneArg /\ ~validate_task_description(description)
        THEN [task |-> t1, err |-> ValidationError]
        ELSE IF status # NoStatus /\ status \notin Statuses
        THEN [task |-> t2, err |-> ValidationError]
        ELSE IF deadline # NoDate /\ ~IsDate(deadline)
        THEN [task |-> t3, err |-> ValidationError]
        ELSE [task |-> t4, err |-> Ok]

---------------------------------------------------------------------------
(* Volatile backend (storage/in_memory.py): the store holds the Project    *)
(* objects themselves, so an assignment to a task is a change of the store *)

\* a method of the store that a service calls and InMemoryStorage lacks
AttributeError == "AttributeError"

\* the call raised e, leaving the store as m
MemRaise(m, e) == [mem |-> m, err |-> e, ret |-> 0]

\* the call returned r, leaving the store as m
MemReturn(m, r) == [mem |-> m, err |-> Ok, ret |-> r]

\* the keys of self._projects
MemIds(m) == {P.id : P \in m.projects}

\* self._projects[project_id]
MemProject(m, project_id) == CHOOSE P \in m.projects : P.id = project_id

\* the store after an assignment to the fields of a stored project object
MemPut(m, project) ==
    [m EXCEPT !.projects = {P \in @ : P.id # project.id} \cup {project}]

\* InMemoryStorage.add_project
mem_add_project(m, name, description, today) ==
    IF Cardinality(m.projects) >= MAX_PROJECTS
    THEN MemRaise(m, LimitExceededError)
    ELSE IF \E P \in m.projects : Lower(P.name) = Lower(name)
    THEN MemRaise(m, DuplicateError)
    ELSE IF ~validate_project_name(name) THEN MemRaise(m, ValidationError)
    ELSE IF ~validate_project_description(description)
    THEN MemRaise(m, ValidationError)
    ELSE LET project_id == m.next_project_id
             project == Project(project_id, name, description, today)
         IN  MemReturn([m EXCEPT !.projects = @ \cup {project},
                                 !.next_project_id = @ + 1], project_id)

\* InMemoryStorage.get_project: [err, project]
mem_get_project(m, project_id) ==
    IF project_id \notin MemIds(m)
    THEN [err |-> NotFoundError]
    ELSE [err |-> Ok, project |-> MemProject(m, project_id)]

\* InMemoryStorage.list_projects
mem_list_projects(m) == SortById(m.projects)

\* InMemoryStorage.delete_project
mem_delete_project(m, project_id) ==
    IF mem_get_project(m, project_id).err # Ok THEN MemRaise(m, NotFoundError)
    ELSE MemReturn([m EXCEPT !.projects = {P \in @ : P.id # project_id}], 0)

\* InMemoryStorage.add_task_to_project (Task.__init__, Project.add_task)
mem_add_task_to_project(m, project_id, title, description, status, deadline, today) ==
    LET g == mem_get_project(m, project_id) IN
    IF g.err # Ok THEN MemRaise(m, NotFoundError)
    ELSE IF ~validate_task_title(title) THEN MemRaise(m, ValidationError)
    ELSE IF ~validate_task_description(description)
    THEN MemRaise(m, ValidationError)
    ELSE IF status \notin Statuses THEN MemRaise(m, ValidationError)
    ELSE IF deadline # NoDate /\ ~IsDate(deadline)
    THEN MemRaise(m, ValidationError)
    ELSE IF Len(g.project.tasks) >= MAX_TASKS_PER_PROJECT
    THEN MemRaise(m, LimitExceededError)
    ELSE IF TitleTaken(g.project, title) THEN MemRaise(m, DuplicateError)
    ELSE LET task_id == m.next_task_id
             task == Task(task_id, title, description, status, deadline, today)
             project == [g.project EXCEPT !.tasks = Append(@, task)]
         IN  MemReturn([MemPut(m, project) EXCEPT !.next_task_id = @ + 1],
                       task_id)

\* InMemoryStorage.update_task: Task.update_task on the stored task object
mem_update_task(m, project_id, task_id, title, description, status, deadline) ==
    LET g == mem_get_project(m, project_id) IN
    IF g.err # Ok THEN MemRaise(m, NotFoundError)
    ELSE LET i == TaskIndex(g.project, task_id) IN
    IF i = 0 THEN MemRaise(m, NotFoundError)
    ELSE LET r == task_update_task(g.project.tasks[i], title, description,
                                   status, deadline)
             e == MemPut(m, [g.project EXCEPT !.tasks[i] = r.task])
         IN  IF r.err = Ok THEN MemReturn(e, task_id) ELSE MemRaise(e, r.err)

\* InMemoryStorage.delete_task (Project.remove_task)
mem_delete_task(m, project_id, task_id) ==
    LET g == mem_get_project(m, project_id) IN
    IF g.err # Ok THEN MemRaise(m, NotFoundError)
    ELSE LET i == TaskIndex(g.project, task_id) IN
    IF i = 0 THEN MemRaise(m, NotFoundError)
    ELSE MemReturn(MemPut(m, [g.project EXCEPT !.tasks = RemoveAt(@, i)]), 0)

\* TaskService.update_task with an InMemoryStorage as its storage: the task
\* is the stored object, each field is assigned as soon as it has passed
\* its own check, and storage.save_project does not exist
mem_service_update_task(m, project_id, task_id, title, description, status, deadline) ==
    LET g == mem_get_project(m, project_id) IN
    IF g.err # Ok THEN MemRaise(m, NotFoundError)
    ELSE LET i == TaskIndex(g.project, task_id) IN
    IF i = 0 THEN MemRaise(m, NotFoundError)
    ELSE LET task == g.project.tasks[i]
             t1 == IF title # NoneArg THEN [task EXCEPT !.title = title]
                   ELSE task
             t2 == IF description # NoneArg
                   THEN [t1 EXCEPT !.description = description] ELSE t1
             t3 == IF status # NoStatus THEN [t2 EXCEPT !.status = status]
                   ELSE t2
             t4 == IF deadline # NoDate THEN [t3 EXCEPT !.deadline = deadline]
                   ELSE t3
             With(t) == MemPut(m, [g.project EXCEPT !.tasks[i] = t])
         IN  IF title # NoneArg /\ ~validate_task_title(title)
             THEN MemRaise(m, ValidationError)
             ELSE IF title # NoneArg /\ OtherTitleTaken(g.project, task_id, title)
             THEN MemRaise(m, DuplicateError)
             ELSE IF description # NoneArg
                     /\ ~validate_task_description(description)
             THEN MemRaise(With(t1), ValidationError)
             ELSE IF status # NoStatus /\ status \notin Statuses
             THEN MemRaise(With(t2), ValidationError)
             ELSE IF deadline # NoDate /\ ~IsDate(deadline)
             THEN MemRaise(With(t3), ValidationError)
             ELSE MemRaise(With(t4), AttributeError)

---------------------------------------------------------------------------
(* The services with an InMemoryStorage as their storage (cli/main.py):    *)
(* get_project, list_projects and delete_project are methods of the store, *)
(* save_project, get_next_project_id and get_next_task_id are not, and the *)
(* call of one of them raises AttributeError                               *)

\* the methods of the protocol ProjectRepository
RepositoryMethods ==
    {"save_project", "get_project", "delete_project", "list_projects",
     "get_next_project_id", "get_next_task_id"}

\* the methods SqlAlchemyStorage defines
SqlAlchemyStorageMethods ==
    {"save_project", "get_project", "delete_project", "list_projects",
     "get_next_project_id", "get_next_task_id"}

\* the methods InMemoryStorage defines
InMemoryStorageMethods ==
    {"add_project", "delete_project", "list_projects", "get_project",
     "update_project", "add_task_to_project", "get_task", "update_task",
     "delete_task"}

\* ProjectService.create_project on the volatile store: raises at
\* storage.get_next_project_id()
mem_service_create_project(m, name, description) ==
    IF ~validate_project_name(name) THEN MemRaise(m, ValidationError)
    ELSE IF ~validate_project_description(description)
    THEN MemRaise(m, ValidationError)
    ELSE LET existing_projects == mem_list_projects(m) IN
    IF ProjectLimitReached(existing_projects) THEN MemRaise(m, LimitExceededError)
    ELSE IF ProjectNameTaken(existing_projects, name)
    THEN MemRaise(m, DuplicateError)
    ELSE MemRaise(m, AttributeError)

\* ProjectService.update_project on the volatile store: the stored object
\* is assigned, then storage.save_project raises
mem_service_update_project(m, project_id, name, description) ==
    LET g == mem_get_project(m, project_id) IN
    IF g.err # Ok THEN MemRaise(m, NotFoundError)
    ELSE IF ~validate_project_name(name) THEN MemRaise(m, ValidationError)
    ELSE IF ~validate_project_description(description)
    THEN MemRaise(m, ValidationError)
    ELSE IF OtherProjectNameTaken(mem_list_projects(m), project_id, name)
    THEN MemRaise(m, DuplicateError)
    ELSE MemRaise(MemPut(m, [g.project EXCEPT !.name = name,
                                              !.description = description]),
                  AttributeError)

\* ProjectService.delete_project on the volatile store
mem_service_delete_project(m, project_id) ==
    IF mem_get_project(m, project_id).err # Ok THEN MemRaise(m, NotFoundError)
    ELSE mem_delete_project(m, project_id)

\* TaskService.create_task on the volatile store: raises at
\* storage.get_next_task_id()
mem_service_create_task(m, project_id, title, description, status, deadline) ==
    LET g == mem_get_project(m, project_id) IN
    IF g.err # Ok THEN MemRaise(m, NotFoundError)
    ELSE IF ~validate_task_title(title) THEN MemRaise(m, ValidationError)
    ELSE IF ~validate_task_description(description)
    THEN MemRaise(m, ValidationError)
    ELSE IF status \notin Statuses THEN MemRaise(m, ValidationError)
    ELSE IF deadline # NoDate /\ ~IsDate(deadline)
    THEN MemRaise(m, ValidationError)
    ELSE IF TaskLimitReached(g.project) THEN MemRaise(m, LimitExceededError)
    ELSE IF TitleTaken(g.project, title) THEN MemRaise(m, DuplicateError)
    ELSE MemRaise(m, AttributeError)

\* TaskService.delete_task on the volatile store: the task is removed from
\* the stored object, then storage.save_project raises
mem_service_delete_task(m, project_id, task_id) ==
    LET g == mem_get_project(m, project_id) IN
    IF g.err # Ok THEN MemRaise(m, NotFoundError)
    ELSE LET i == TaskIndex(g.project, task_id) IN
    IF i = 0 THEN MemRaise(m, NotFoundError)
    ELSE MemRaise(MemPut(m, [g.project EXCEPT !.tasks = RemoveAt(@, i)]),
                  AttributeError)

\* TaskService.change_task_status on the volatile store
mem_service_change_task_status(m, project_id, task_id, new_status) ==
    IF new_status \notin Statuses THEN MemRaise(m, ValidationError)
    ELSE mem_service_update_task(m, project_id, task_id, NoneArg, NoneArg,
                                 new_status, NoDate)

\* TaskService.autoclose_overdue_tasks on the volatile store: the tasks of
\* the first project that holds an overdue task are closed on the stored
\* object, then storage.save_project raises
mem_service_autoclose_overdue_tasks(m, today) ==
    LET projects == mem_list_projects(m)
        changed == {i \in DOMAIN projects : CountOverdue(projects[i], today) > 0}
    IN  IF changed = {} THEN MemReturn(m, 0)
        ELSE LET i == CHOOSE k \in changed : \A j \in changed : k <= j
                 project == [projects[i] EXCEPT
                                !.tasks = CloseTasks(projects[i], today)]
             IN  MemRaise(MemPut(m, project), AttributeError)

---------------------------------------------------------------------------
(* Inputs *)

sa == <<"a">>
sA == <<"A">>
sb == <<"b">>

\* valid names and titles: two that differ in letter case only, and a third
ValidNames == {sa, sA, sb}

\* valid project names: one more distinct name than MAX_PROJECTS
sc == <<"c">>
ValidProjectNames == ValidNames \cup {sc}

\* invalid names and titles: empty, blank, over-long
InvalidNames == {<<>>, <<" ">>, Repeat("a", MaxNameLen + 1)}

\* a valid description, and an over-long one
ValidDescs == {<<>>}
LongDesc == Repeat("d", MaxDescLen + 1)

\* an invalid status
BadStatus == "closed"

\* deadlines: the days 2..MaxDay+1
DeadlineDays == 2..(MaxDay + 1)

\* the days autoclose_overdue_tasks is called with: before, on and after
\* every deadline
TodayInputs == 1..(MaxDay + 2)

\* project ids a caller may pass (one more than can exist)
ProjectIdInputs == 1..(MaxProjectId + 1)

\* task ids a caller may pass (one more than can exist)
TaskIdInputs == 1..(MaxTaskId + 1)

\* (name, description) of create_project and update_project: every valid
\* pair, and pairs with one invalid argument
ProjectArgs ==
    (ValidProjectNames \X ValidDescs)
        \cup (InvalidNames \X {<<>>})
        \cup {<<sa, LongDesc>>}

\* (title, description, status, deadline) of create_task: every valid
\* tuple, and tuples with one invalid argument
CreateTaskArgs ==
    (ValidNames \X ValidDescs \X Statuses \X ({NoDate} \cup DeadlineDays))
        \cup (InvalidNames \X {<<>>} \X {"todo"} \X {NoDate})
        \cup {<<sa, LongDesc, "todo", NoDate>>,
              <<sa, <<>>, BadStatus, NoDate>>,
              <<sa, <<>>, "todo", NotADate>>}

\* (title, description, status, deadline) of update_task: nothing provided,
\* one argument provided (valid or invalid), and a valid title together with
\* an invalid description or status
UpdateTaskArgs ==
    {<<NoneArg, NoneArg, NoStatus, NoDate>>}
        \cup ((ValidNames \cup {<<>>}) \X {NoneArg} \X {NoStatus} \X {NoDate})
        \cup ({NoneArg} \X (ValidDescs \cup {LongDesc}) \X {NoStatus} \X {NoDate})
        \cup ({NoneArg} \X {NoneArg} \X (Statuses \cup {BadStatus}) \X {NoDate})
        \cup ({NoneArg} \X {NoneArg} \X {NoStatus} \X (DeadlineDays \cup {NotADate}))
        \cup {<<sb, LongDesc, NoStatus, NoDate>>,
              <<sb, NoneArg, BadStatus, NoDate>>}

\* the (project_id, task_id) pairs of the stored tasks
StoredTaskKeys(d) == {<<r.project_id, r.id>> : r \in d.tasks}

\* the argument tuples tried on a (project_id, task_id): all of them on a
\* stored task, one of them on a pair that names no stored task
ArgsFor(d, key, args, one) == IF key \in StoredTaskKeys(d) THEN args ELSE {one}

---------------------------------------------------------------------------
(* Specification *)

\* no outcome is pending: the menu loop is at its prompt
Idle ==
    [op |-> "idle", today |-> 0, err |-> Ok, ret |-> 0, saves |-> <<>>,
     removed |-> 0]

\* the number of rows of "tasks" in d that are no longer in e
RowsRemoved(d, e) ==
    Cardinality({r.id : r \in d.tasks} \ {r.id : r \in e.tasks})

\* no identifier has been given yet
NoneGiven == [project |-> <<>>, task |-> <<>>]

\* InMemoryStorage.__init__
EmptyMem == [projects |-> {}, next_project_id |-> 1, next_task_id |-> 1]

\* the scheduler process has not been started
NotStarted ==
    [pc |-> "off", inits |-> 0, elapsed |-> 0, ran |-> FALSE, cause |-> "",
     today |-> CreationDay]

\* no auto-close pass is in progress
NoPass == [pc |-> "idle", projects |-> <<>>, i |-> 0, today |-> 0]

Init ==
    /\ db = [projects |-> {}, tasks |-> {}]
    /\ last = Idle
    /\ given = NoneGiven
    /\ mem = EmptyMem
    /\ sched = NotStarted
    /\ pass = NoPass
    /\ closures = <<>>

\* the call op with result r has been made (today: the argument of the
\* auto-close pass, 0 for the other calls; removed: the task rows it deleted)
Done(op, today, r) ==
    /\ db' = r.db
    /\ last' = [op |-> op, today |-> today, err |-> r.err, ret |-> r.ret,
                saves |-> r.saves, removed |-> RowsRemoved(db, r.db)]
    /\ UNCHANGED others

\* the menu loop has shown the outcome of a command and prompts again
Prompt ==
    /\ last # Idle
    /\ last' = Idle
    /\ UNCHANGED <<db, others>>

CreateProject ==
    /\ last = Idle
    /\ \E a \in ProjectArgs :
        LET r == create_project(db, a[1], a[2], CreationDay) IN
        /\ r.err = Ok => r.ret <= MaxProjectId
        /\ Done("create_project", 0, r)

UpdateProject ==
    /\ last = Idle
    /\ \E project_id \in ProjectIdInputs :
        \E a \in (IF project_id \in ProjectIds(db) THEN ProjectArgs
                  ELSE {<<sa, <<>>>>}) :
            Done("update_project", 0, update_project(db, project_id, a[1], a[2]))

DeleteProject ==
    /\ last = Idle
    /\ \E project_id \in ProjectIdInputs :
        Done("delete_project", 0, delete_project(db, project_id))

CreateTask ==
    /\ last = Idle
    /\ \E project_id \in ProjectIdInputs :
        \E a \in (IF project_id \in ProjectIds(db) THEN CreateTaskArgs
                  ELSE {<<sa, <<>>, "todo", NoDate>>}) :
            LET r == create_task(db, project_id, a[1], a[2], a[3], a[4],
                                 CreationDay) IN
            /\ r.err = Ok => r.ret <= MaxTaskId
            /\ Done("create_task", 0, r)

UpdateTask ==
    /\ last = Idle
    /\ \E project_id \in ProjectIdInputs, task_id \in TaskIdInputs :
        \E a \in ArgsFor(db, <<project_id, task_id>>, UpdateTaskArgs,
                         <<sa, NoneArg, NoStatus, NoDate>>) :
            Done("update_task", 0,
                 update_task(db, project_id, task_id, a[1], a[2], a[3], a[4]))

ChangeTaskStatus ==
    /\ last = Idle
    /\ \E project_id \in ProjectIdInputs, task_id \in TaskIdInputs :
        \E new_status \in ArgsFor(db, <<project_id, task_id>>,
                                  Statuses \cup {BadStatus}, "done") :
            Done("change_task_status", 0,
                 change_task_status(db, project_id, task_id, new_status))

DeleteTask ==
    /\ last = Idle
    /\ \E project_id \in ProjectIdInputs, task_id \in TaskIdInputs :
        Done("delete_task", 0, delete_task(db, project_id, task_id))

\* one pass of the auto-close job (run on demand or by the scheduler)
AutocloseOverdueTasks ==
    /\ last = Idle
    /\ \E today \in TodayInputs :
        Done("autoclose_overdue_tasks", today,
             autoclose_overdue_tasks(db, today))

Next ==
    \/ Prompt
    \/ CreateProject
    \/ UpdateProject
    \/ DeleteProject
    \/ CreateTask
    \/ UpdateTask
    \/ ChangeTaskStatus
    \/ DeleteTask
    \/ AutocloseOverdueTasks

Spec == Init /\ [][Next]_vars

---------------------------------------------------------------------------
(* Identifiers: the create and delete calls over the durable store, with   *)
(* the history of the identifiers they were given                          *)

\* number of identifiers of each kind the history records
MaxGiven == 3

\* ProjectService.create_project; the id of the new project is recorded
IdCreateProject ==
    \E name \in ValidProjectNames :
        LET r == create_project(db, name, <<>>, CreationDay) IN
        /\ r.err = Ok => Len(given.project) < MaxGiven
        /\ db' = r.db
        /\ given' = IF r.err = Ok
                    THEN [given EXCEPT !.project = Append(@, r.ret)]
                    ELSE given
        /\ UNCHANGED <<last, mem, sched, job>>

\* ProjectService.delete_project
IdDeleteProject ==
    \E project_id \in ProjectIdInputs :
        /\ db' = delete_project(db, project_id).db
        /\ UNCHANGED <<last, given, mem, sched, job>>

\* TaskService.create_task; the id of the new task is recorded
IdCreateTask ==
    \E project_id \in ProjectIdInputs, title \in ValidNames :
        LET r == create_task(db, project_id, title, <<>>, "todo", NoDate,
                             CreationDay) IN
        /\ r.err = Ok => Len(given.task) < MaxGiven
        /\ db' = r.db
        /\ given' = IF r.err = Ok
                    THEN [given EXCEPT !.task = Append(@, r.ret)]
                    ELSE given
        /\ UNCHANGED <<last, mem, sched, job>>

\* TaskService.delete_task
IdDeleteTask ==
    \E project_id \in ProjectIdInputs, task_id \in 1..MaxGiven :
        /\ db' = delete_task(db, project_id, task_id).db
        /\ UNCHANGED <<last, given, mem, sched, job>>

IdNext ==
    \/ IdCreateProject
    \/ IdDeleteProject
    \/ IdCreateTask
    \/ IdDeleteTask

IdSpec == Init /\ [][IdNext]_vars

---------------------------------------------------------------------------
(* The volatile store: the methods of InMemoryStorage, and                 *)
(* TaskService.update_task with an InMemoryStorage as its storage          *)

\* (title, description, status, deadline) of the update calls on the
\* volatile store: one valid argument, one invalid argument, and a valid
\* title together with an invalid description, status or deadline
MemUpdateArgs ==
    {<<sA, NoneArg, NoStatus, NoDate>>,
     <<sb, NoneArg, NoStatus, NoDate>>,
     <<NoneArg, NoneArg, "done", NoDate>>,
     <<<<>>, NoneArg, NoStatus, NoDate>>,
     <<NoneArg, LongDesc, NoStatus, NoDate>>,
     <<sb, LongDesc, NoStatus, NoDate>>,
     <<sb, NoneArg, BadStatus, NoDate>>,
     <<sb, NoneArg, NoStatus, NotADate>>}

\* the (project id, task id) pairs of the tasks in the volatile store
MemTaskKeys(m) ==
    UNION {{<<P.id, P.tasks[i].id>> : i \in DOMAIN P.tasks} : P \in m.projects}

\* the volatile store after a call; the id it gave, if any, is recorded
MemDone(r, kind) ==
    /\ mem' = r.mem
    /\ given' = IF r.err = Ok /\ kind # "none"
                THEN [given EXCEPT ![kind] = Append(@, r.ret)]
                ELSE given
    /\ UNCHANGED <<db, last, sched, job>>

MemAddProject ==
    \E name \in ValidNames \cup {<<>>} :
        LET r == mem_add_project(mem, name, <<>>, CreationDay) IN
        /\ r.err = Ok => r.ret <= MaxGiven
        /\ MemDone(r, "project")

MemDeleteProject ==
    \E project_id \in 1..MaxGiven :
        MemDone(mem_delete_project(mem, project_id), "none")

MemAddTask ==
    \E project_id \in 1..MaxGiven, title \in ValidNames \cup {<<>>} :
        LET r == mem_add_task_to_project(mem, project_id, title, <<>>, "todo",
                                         NoDate, CreationDay) IN
        /\ r.err = Ok => r.ret <= MaxTaskId
        /\ MemDone(r, "task")

MemUpdateTask ==
    \E key \in MemTaskKeys(mem) \cup {<<1, 1>>}, a \in MemUpdateArgs :
        MemDone(mem_update_task(mem, key[1], key[2], a[1], a[2], a[3], a[4]),
                "none")

MemDeleteTask ==
    \E key \in MemTaskKeys(mem) \cup {<<1, 1>>} :
        MemDone(mem_delete_task(mem, key[1], key[2]), "none")

MemServiceUpdateTask ==
    \E key \in MemTaskKeys(mem) \cup {<<1, 1>>}, a \in MemUpdateArgs :
        MemDone(mem_service_update_task(mem, key[1], key[2], a[1], a[2], a[3],
                                        a[4]), "none")

MemNext ==
    \/ MemAddProject
    \/ MemDeleteProject
    \/ MemAddTask
    \/ MemUpdateTask
    \/ MemDeleteTask
    \/ MemServiceUpdateTask

MemSpec == Init /\ [][MemNext]_vars

---------------------------------------------------------------------------
(* The auto-close scheduler (cron_autoclose.py): init_db(), the job        *)
(* run_once scheduled every minute, then the loop of run_pending() and     *)
(* sleep(1)                                                                *)

\* number of sleep(1) steps that make up the interval of the job
Interval == 2

\* a schedule on which the job never becomes due
JobDue_Never(s) == FALSE

\* schedule: the job is due when its interval has elapsed
JobDue(s) == s.elapsed >= Interval

\* the durable stores the scheduler may find: empty, and one or two
\* projects with tasks in every status, with and without a deadline
SchedStores ==
    LET empty == [projects |-> {}, tasks |-> {}]
        one == create_project(empty, sa, <<>>, CreationDay).db
        two == create_project(one, sb, <<>>, CreationDay).db
        WithTask(d, project_id, title) ==
            {create_task(d, project_id, title, <<>>, status, deadline,
                         CreationDay).db :
                status \in Statuses, deadline \in {NoDate} \cup DeadlineDays}
    IN  {empty, one}
            \cup WithTask(one, 1, sa)
            \cup UNION {WithTask(d, 2, sb) : d \in WithTask(two, 1, sa)}

\* the process has not been started; the store is one of SchedStores
SchedInit ==
    /\ db \in SchedStores
    /\ last = Idle
    /\ given = NoneGiven
    /\ mem = EmptyMem
    /\ sched = NotStarted
    /\ pass = NoPass
    /\ closures = <<>>

\* the store after a pass that a persistence error stopped before the
\* project at position k + 1: the first k projects have been processed
PassStoppedAfter(d, k, today) ==
    AutocloseFrom(d, SubSeq(list_projects(d), 1, k), 1, today, 0, <<>>).db

\* main: init_db(), then schedule.every(1).minutes.do(run_once); a
\* connection error in init_db ends the process
SchedInitDb ==
    /\ sched.pc = "off"
    /\ \/ sched' = [sched EXCEPT !.pc = "run_pending", !.inits = @ + 1,
                                 !.elapsed = 0]
       \/ sched' = [sched EXCEPT !.pc = "crashed", !.cause = "startup"]
    /\ UNCHANGED <<db, last, given, mem, job>>

\* schedule.run_pending(): run_once if the job is due; an exception of
\* run_once is caught nowhere and ends the process
SchedRunPending ==
    /\ sched.pc = "run_pending"
    /\ IF JobDue(sched)
       THEN \/ /\ db' = autoclose_overdue_tasks(db, sched.today).db
               /\ sched' = [sched EXCEPT !.pc = "sleep", !.ran = TRUE,
                                         !.elapsed = 0]
            \/ \E k \in 0..Len(list_projects(db)) :
                  /\ db' = PassStoppedAfter(db, k, sched.today)
                  /\ sched' = [sched EXCEPT !.pc = "crashed", !.ran = TRUE,
                                            !.cause = "job"]
       ELSE /\ sched' = [sched EXCEPT !.pc = "sleep", !.ran = FALSE]
            /\ UNCHANGED db
    /\ UNCHANGED <<last, given, mem, job>>

\* time.sleep(1)
SchedSleep ==
    /\ sched.pc = "sleep"
    /\ sched' = [sched EXCEPT !.pc = "run_pending", !.ran = FALSE,
                              !.elapsed = IF @ < Interval THEN @ + 1 ELSE @]
    /\ UNCHANGED <<db, last, given, mem, job>>

\* date.today() moves on to the next day
SchedMidnight ==
    /\ sched.today < MaxDay + 2
    /\ sched' = [sched EXCEPT !.today = @ + 1]
    /\ UNCHANGED <<db, last, given, mem, job>>

\* the process is terminated from outside
SchedTerminate ==
    /\ sched.pc \in {"run_pending", "sleep"}
    /\ sched' = [sched EXCEPT !.pc = "terminated", !.cause = "signal"]
    /\ UNCHANGED <<db, last, given, mem, job>>

SchedNext ==
    \/ SchedInitDb
    \/ SchedRunPending
    \/ SchedSleep
    \/ SchedMidnight
    \/ SchedTerminate

\* the process, once started, keeps taking the steps of main
SchedSpec ==
    /\ SchedInit
    /\ [][SchedNext]_vars
    /\ WF_vars(SchedInitDb)
    /\ WF_vars(SchedRunPending)
    /\ WF_vars(SchedSleep)

---------------------------------------------------------------------------
(* The two backends side by side: each service call is made on a durable   *)
(* and on a volatile store, both empty at the start                        *)

\* (title, description, status, deadline) of update_task on both stores: a
\* valid title, a valid status, and a valid title with an invalid description
PairUpdateArgs ==
    {<<sb, NoneArg, NoStatus, NoDate>>,
     <<NoneArg, NoneArg, "done", NoDate>>,
     <<sb, LongDesc, NoStatus, NoDate>>}

\* the outcome of a call on both stores
PairDone(op, r, v) ==
    /\ db' = r.db
    /\ mem' = v.mem
    /\ last' = [op |-> op, err |-> r.err, volatile |-> v.err]
    /\ UNCHANGED <<given, sched, job>>

PairCreateProject ==
    \E name \in ValidNames \cup {<<>>} :
        LET r == create_project(db, name, <<>>, CreationDay) IN
        /\ r.err = Ok => r.ret <= MaxProjectId
        /\ PairDone("create_project", r,
                    mem_service_create_project(mem, name, <<>>))

PairUpdateProject ==
    \E project_id \in ProjectIdInputs, name \in {sb, <<>>} :
        PairDone("update_project",
                 update_project(db, project_id, name, <<>>),
                 mem_service_update_project(mem, project_id, name, <<>>))

PairDeleteProject ==
    \E project_id \in ProjectIdInputs :
        PairDone("delete_project", delete_project(db, project_id),
                 mem_service_delete_project(mem, project_id))

PairCreateTask ==
    \E project_id \in ProjectIdInputs, title \in {sa, <<>>},
       deadline \in DeadlineDays :
        LET r == create_task(db, project_id, title, <<>>, "todo", deadline,
                             CreationDay) IN
        /\ r.err = Ok => r.ret <= MaxTaskId
        /\ PairDone("create_task", r,
                    mem_service_create_task(mem, project_id, title, <<>>,
                                            "todo", deadline))

PairUpdateTask ==
    \E project_id \in ProjectIdInputs, task_id \in TaskIdInputs :
        \E a \in ArgsFor(db, <<project_id, task_id>>, PairUpdateArgs,
                         <<sb, NoneArg, NoStatus, NoDate>>) :
            PairDone("update_task",
                     update_task(db, project_id, task_id, a[1], a[2], a[3], a[4]),
                     mem_service_update_task(mem, project_id, task_id, a[1],
                                             a[2], a[3], a[4]))

PairDeleteTask ==
    \E project_id \in ProjectIdInputs, task_id \in TaskIdInputs :
        PairDone("delete_task", delete_task(db, project_id, task_id),
                 mem_service_delete_task(mem, project_id, task_id))

PairAutocloseOverdueTasks ==
    \E today \in TodayInputs :
        PairDone("autoclose_overdue_tasks", autoclose_overdue_tasks(db, today),
                 mem_service_autoclose_overdue_tasks(mem, today))

PairNext ==
    \/ PairCreateProject
    \/ PairUpdateProject
    \/ PairDeleteProject
    \/ PairCreateTask
    \/ PairUpdateTask
    \/ PairDeleteTask
    \/ PairAutocloseOverdueTasks

PairSpec == Init /\ [][PairNext]_vars

---------------------------------------------------------------------------
(* The job tick by tick: passes of the auto-close job, run with the date   *)
(* of the day, between the calls that create tasks and change them, with   *)
(* the history of the tasks the job has closed                             *)

\* number of closures the history records
MaxClosures == 3

\* the (project id, task id) of the tasks a pass closes in a project
ClosedIn(project, today) ==
    LET overdue == SelectSeq(project.tasks, LAMBDA task : Overdue(task, today))
    IN  [k \in DOMAIN overdue |-> <<project.id, overdue[k].id>>]

\* the tasks a pass closes, from the i-th project on, in the order of closing
RECURSIVE ClosedFrom(_, _, _)
ClosedFrom(projects, i, today) ==
    IF i > Len(projects) THEN <<>>
    ELSE ClosedIn(projects[i], today) \o ClosedFrom(projects, i + 1, today)

TickCreateProject ==
    LET r == create_project(db, sa, <<>>, CreationDay) IN
    /\ r.err = Ok
    /\ db' = r.db
    /\ UNCHANGED <<last, given, mem, sched, job>>

TickCreateTask ==
    \E project_id \in ProjectIds(db), title \in {sa, sb}, status \in Statuses,
       deadline \in {NoDate} \cup DeadlineDays :
        LET r == create_task(db, project_id, title, <<>>, status, deadline,
                             CreationDay) IN
        /\ r.err = Ok => r.ret <= MaxTaskId
        /\ db' = r.db
        /\ UNCHANGED <<last, given, mem, sched, job>>

TickChangeTaskStatus ==
    \E key \in StoredTaskKeys(db), new_status \in Statuses \cup {BadStatus} :
        /\ db' = change_task_status(db, key[1], key[2], new_status).db
        /\ UNCHANGED <<last, given, mem, sched, job>>

TickUpdateTask ==
    \E key \in StoredTaskKeys(db), deadline \in DeadlineDays :
        /\ db' = update_task(db, key[1], key[2], NoneArg, NoneArg, NoStatus,
                             deadline).db
        /\ UNCHANGED <<last, given, mem, sched, job>>

\* run_once: autoclose_overdue_tasks() with date.today()
TickRunOnce ==
    LET closed == ClosedFrom(list_projects(db), 1, sched.today) IN
    /\ Len(closures) + Len(closed) <= MaxClosures
    /\ db' = autoclose_overdue_tasks(db, sched.today).db
    /\ closures' = closures \o closed
    /\ UNCHANGED <<last, given, mem, sched, pass>>

TickNext ==
    \/ TickCreateProject
    \/ TickCreateTask
    \/ TickChangeTaskStatus
    \/ TickUpdateTask
    \/ TickRunOnce
    \/ SchedMidnight

TickSpec == Init /\ [][TickNext]_vars

---------------------------------------------------------------------------
(* One pass of the auto-close job beside the menu: the pass is the process *)
(* of cron_autoclose.py, the service calls are made by another process on  *)
(* the same durable store.  Each storage call is one session and is        *)
(* atomic: list_projects at the start of the pass, then one save_project   *)
(* for each project of the list that holds an overdue task.                *)

\* the commit of a session violated a constraint of the schema
IntegrityError == "IntegrityError"

\* the constraints save_project(project) would violate in the store d:
\* projects.name is unique, tasks.id is the primary key
IntegrityViolated(d, project) ==
    \/ \E r \in d.projects : r.id # project.id /\ r.name = project.name
    \/ \E r \in d.tasks, i \in DOMAIN project.tasks :
          r.project_id # project.id /\ r.id = project.tasks[i].id

\* the day of the pass: every deadline of the model is before it
PassDay == MaxDay + 2

\* the stores the pass may find: one or two projects, each project with
\* no task or with one or two overdue tasks
ConcStores ==
    LET empty == [projects |-> {}, tasks |-> {}]
        one == create_project(empty, sa, <<>>, CreationDay).db
        two == create_project(one, sb, <<>>, CreationDay).db
        WithTask(d, project_id, title) ==
            create_task(d, project_id, title, <<>>, "todo", 2, CreationDay).db
    IN  {WithTask(one, 1, sa),
         WithTask(WithTask(one, 1, sa), 1, sb),
         WithTask(two, 1, sa),
         WithTask(WithTask(two, 1, sa), 2, sb)}

\* no pass is in progress; the store is one of ConcStores
ConcInit ==
    /\ db \in ConcStores
    /\ last = Idle
    /\ given = NoneGiven
    /\ mem = EmptyMem
    /\ sched = NotStarted
    /\ pass = NoPass
    /\ closures = <<>>

\* projects: List[Project] = self._storage.list_projects()
PassRead ==
    /\ pass.pc = "idle"
    /\ pass' = [pc |-> "loop", projects |-> list_projects(db), i |-> 1,
                today |-> PassDay]
    /\ UNCHANGED <<db, last, given, mem, sched, closures>>

\* one iteration of "for project in projects": the inner loop on the
\* objects of the list, then save_project if a task was closed; a commit
\* that violates a constraint is rolled back and its exception ends the pass
PassProject ==
    /\ pass.pc = "loop"
    /\ pass.i <= Len(pass.projects)
    /\ LET read == pass.projects[pass.i]
           changed == CountOverdue(read, pass.today) > 0
           project == [read EXCEPT !.tasks = CloseTasks(read, pass.today)]
       IN  IF ~changed
           THEN /\ pass' = [pass EXCEPT !.i = @ + 1]
                /\ UNCHANGED db
           ELSE IF IntegrityViolated(db, project)
           THEN /\ pass' = [pass EXCEPT !.pc = "failed"]
                /\ UNCHANGED db
           ELSE /\ pass' = [pass EXCEPT !.i = @ + 1]
                /\ db' = save_project(db, project)
    /\ UNCHANGED <<last, given, mem, sched, closures>>

\* return updated_count
PassReturn ==
    /\ pass.pc = "loop"
    /\ pass.i > Len(pass.projects)
    /\ pass' = [pass EXCEPT !.pc = "returned"]
    /\ UNCHANGED <<db, last, given, mem, sched, closures>>

\* a service call of the menu, made after the pass has read the projects
ConcDone(r) ==
    /\ pass.pc # "idle"
    /\ db' = r.db
    /\ UNCHANGED <<last, given, mem, sched, job>>

ConcCreateProject ==
    \E name \in {sa, sb, sc} :
        LET r == create_project(db, name, <<>>, CreationDay) IN
        /\ r.err = Ok => r.ret <= MaxProjectId
        /\ ConcDone(r)

ConcDeleteProject ==
    \E project_id \in ProjectIds(db) :
        ConcDone(delete_project(db, project_id))

ConcCreateTask ==
    \E project_id \in ProjectIds(db), title \in {sa, sb} :
        LET r == create_task(db, project_id, title, <<>>, "todo", 2,
                             CreationDay) IN
        /\ r.err = Ok => r.ret <= MaxTaskId
        /\ ConcDone(r)

ConcUpdateTask ==
    \E key \in StoredTaskKeys(db) :
        ConcDone(update_task(db, key[1], key[2], sc, NoneArg, NoStatus, NoDate))

ConcDeleteTask ==
    \E key \in StoredTaskKeys(db) :
        ConcDone(delete_task(db, key[1], key[2]))

ConcNext ==
    \/ PassRead
    \/ PassProject
    \/ PassReturn
    \/ ConcCreateProject
    \/ ConcDeleteProject
    \/ ConcCreateTask
    \/ ConcUpdateTask
    \/ ConcDeleteTask

ConcSpec == ConcInit /\ [][ConcNext]_vars

---------------------------------------------------------------------------
(* The task objects that carry closed_at: the objects of the volatile      *)
(* store, on which the assignments of the task service remain.  Projects   *)
(* and tasks are added by the methods of the store, tasks are changed by   *)
(* the task service and by the store, and the job is run on the store.     *)

\* the call op has been made on the volatile store with result r
StampDone(op, today, r) ==
    /\ mem' = r.mem
    /\ last' = [op |-> op, today |-> today, err |-> r.err]
    /\ UNCHANGED <<db, given, sched, job>>

StampAddProject ==
    StampDone("add_project", 0, mem_add_project(mem, sa, <<>>, CreationDay))

StampAddTask ==
    \E project_id \in MemIds(mem), title \in {sa, sb},
       deadline \in {NoDate} \cup DeadlineDays :
        LET r == mem_add_task_to_project(mem, project_id, title, <<>>, "todo",
                                         deadline, CreationDay) IN
        /\ r.err = Ok => r.ret <= MaxTaskId
        /\ StampDone("add_task_to_project", 0, r)

StampUpdateTask ==
    \E key \in MemTaskKeys(mem),
       a \in {<<sb, NoneArg, NoStatus, NoDate>>,
              <<NoneArg, NoneArg, "doing", NoDate>>,
              <<NoneArg, NoneArg, NoStatus, MaxDay + 1>>,
              <<sb, LongDesc, NoStatus, NoDate>>} :
        StampDone("update_task", 0,
                  mem_service_update_task(mem, key[1], key[2], a[1], a[2], a[3],
                                          a[4]))

StampChangeTaskStatus ==
    \E key \in MemTaskKeys(mem), new_status \in Statuses \cup {BadStatus} :
        StampDone("change_task_status", 0,
                  mem_service_change_task_status(mem, key[1], key[2], new_status))

StampStorageUpdateTask ==
    \E key \in MemTaskKeys(mem), status \in Statuses :
        StampDone("storage_update_task", 0,
                  mem_update_task(mem, key[1], key[2], NoneArg, NoneArg, status,
                                  NoDate))

StampDeleteTask ==
    \E key \in MemTaskKeys(mem) :
        StampDone("delete_task", 0, mem_delete_task(mem, key[1], key[2]))

StampAutocloseOverdueTasks ==
    \E today \in TodayInputs :
        StampDone("autoclose_overdue_tasks", today,
                  mem_service_autoclose_overdue_tasks(mem, today))

StampNext ==
    \/ StampAddProject
    \/ StampAddTask
    \/ StampUpdateTask
    \/ StampChangeTaskStatus
    \/ StampStorageUpdateTask
    \/ StampDeleteTask
    \/ StampAutocloseOverdueTasks

StampSpec == Init /\ [][StampNext]_vars

---------------------------------------------------------------------------
(* What a caller observes *)

AC == "autoclose_overdue_tasks"

\* the stored tasks as list_projects returns them, each with its project id
Stored(d) ==
    UNION {{[project |-> P.id, task |-> P.tasks[i]] : i \in DOMAIN P.tasks} :
           P \in Range(list_projects(d))}

\* the stored task with the given id, as read back
StoredTask(d, task_id) == CHOOSE s \in Stored(d) : s.task.id = task_id

\* a task the auto-close pass of the given day has to close
MustClose(task, today) ==
    /\ task.deadline # NoDate
    /\ task.deadline < today
    /\ task.status # "done"

\* the number of elements of the sequence s equal to x
Occurrences(s, x) == Cardinality({i \in DOMAIN s : s[i] = x})

\* two characters that are the same letter
SameLetter(c, e) ==
    \/ c = e
    \/ {c, e} \in {{"a", "A"}, {"b", "B"}, {"d", "D"}}

\* two strings that are equal when compared case-insensitively
SameIgnoringCase(s, t) ==
    /\ Len(s) = Len(t)
    /\ \A i \in DOMAIN s : SameLetter(s[i], t[i])

\* the stored projects, as list_projects returns them
StoredProjects(d) == Range(list_projects(d))

\* every tuple of valid create_task arguments
ValidTaskArgs ==
    ValidNames \X ValidDescs \X Statuses \X ({NoDate} \cup DeadlineDays)

---------------------------------------------------------------------------
(* The auto-close job *)

\* C1: a pass autoclose_overdue_tasks(today) leaves every task that had a
\* deadline before today and was not done with status "done" and
\* closed_at = today, and returns the number of such tasks.
C1_ClosesEveryOverdueTask ==
    [][last'.op = AC =>
        /\ \A s \in Stored(db) : MustClose(s.task, last'.today) =>
              \E t \in Stored(db') :
                  /\ t.project = s.project
                  /\ t.task.id = s.task.id
                  /\ t.task.status = "done"
                  /\ t.task.closed_at = last'.today
        /\ last'.ret =
              Cardinality({s \in Stored(db) : MustClose(s.task, last'.today)})
      ]_vars

\* C1 without closed_at: the status and the returned count are as claimed.
AutocloseStatusAndCount ==
    [][last'.op = AC =>
        /\ \A s \in Stored(db) : MustClose(s.task, last'.today) =>
              \E t \in Stored(db') :
                  /\ t.project = s.project
                  /\ t.task.id = s.task.id
                  /\ t.task.status = "done"
        /\ last'.ret =
              Cardinality({s \in Stored(db) : MustClose(s.task, last'.today)})
      ]_vars

\* C2: a pass leaves every task that has no deadline, a deadline on or after
\* today, or status "done" exactly as it was, and adds or removes no task
\* and no project.
C2_LeavesOtherTasksUntouched ==
    [][last'.op = AC =>
        /\ \A s \in Stored(db) : ~MustClose(s.task, last'.today) =>
              s \in Stored(db')
        /\ {<<s.project, s.task.id>> : s \in Stored(db')} =
              {<<s.project, s.task.id>> : s \in Stored(db)}
        /\ ProjectIds(db') = ProjectIds(db)
      ]_vars

\* a pass that closed a task and left alone a task that has no deadline and
\* is not done
C2_Witness ==
    /\ last.op = AC
    /\ last.ret >= 1
    /\ \E s \in Stored(db) : s.task.deadline = NoDate /\ s.task.status # "done"

\* C3: right after a pass with day D, a second pass with the same D returns
\* 0 and leaves the stored state as it is.
C3_SecondPassIsNoOp ==
    last.op = AC =>
        LET second == autoclose_overdue_tasks(db, last.today) IN
        /\ second.err = Ok
        /\ second.ret = 0
        /\ second.db = db
        /\ Stored(second.db) = Stored(db)

\* a first pass that closed two tasks
C3_Witness ==
    /\ last.op = AC
    /\ last.ret = 2

\* C4: a pass calls save_project exactly once for each project in which it
\* closed a task, and not at all for any other project.
C4_OneSavePerChangedProject ==
    [][last'.op = AC =>
        /\ \A p \in ProjectIds(db) :
              Occurrences(last'.saves, p) =
                  IF \E s \in Stored(db) :
                        s.project = p /\ MustClose(s.task, last'.today)
                  THEN 1 ELSE 0
        /\ Range(last'.saves) \subseteq ProjectIds(db)
      ]_vars

\* a pass closed two tasks of one project and saved once, while another
\* project, holding no overdue task, was not saved
C4_Witness ==
    /\ last.op = AC
    /\ last.ret = 2
    /\ Len(last.saves) = 1
    /\ Cardinality(db.projects) = 2

---------------------------------------------------------------------------
(* Limits and uniqueness *)

\* the menu loop is at its prompt: the states in which a call is made
AtPrompt == last = Idle

\* C5: the number of stored projects is at most MAX_PROJECTS.
C5_ProjectCountWithinLimit ==
    Len(list_projects(db)) <= MAX_PROJECTS

\* a create_project that brought the store to MAX_PROJECTS projects
C5_Witness ==
    /\ last.op = "create_project"
    /\ last.err = Ok
    /\ Len(list_projects(db)) = MAX_PROJECTS

\* C6: with MAX_PROJECTS projects stored, create_project with a valid name
\* and description fails with LimitExceededError and stores nothing.
C6_CreateProjectAtLimitFails ==
    (AtPrompt /\ Len(list_projects(db)) = MAX_PROJECTS) =>
        \A name \in ValidProjectNames, description \in ValidDescs :
            LET r == create_project(db, name, description, CreationDay) IN
            /\ r.err = LimitExceededError
            /\ r.db = db
            /\ list_projects(r.db) = list_projects(db)

\* a create_project that failed with LimitExceededError at the limit
C6_Witness ==
    /\ last.op = "create_project"
    /\ last.err = LimitExceededError
    /\ Len(list_projects(db)) = MAX_PROJECTS

\* no two stored projects have names that are equal case-insensitively
UniqueProjectNames ==
    \A P \in StoredProjects(db), Q \in StoredProjects(db) :
        P.id # Q.id => ~SameIgnoringCase(P.name, Q.name)

\* C7 as claimed: project names are unique case-insensitively, and
\* create_project with a name that matches an existing one
\* case-insensitively fails with DuplicateError.
C7_DuplicateNameAlwaysDuplicateError ==
    /\ UniqueProjectNames
    /\ \A P \in StoredProjects(db), name \in ValidProjectNames,
          description \in ValidDescs :
            (AtPrompt /\ SameIgnoringCase(name, P.name)) =>
                create_project(db, name, description, CreationDay).err =
                    DuplicateError

\* C7 as amended: project names are unique case-insensitively, and
\* create_project with a valid description and a name that matches an
\* existing one case-insensitively stores nothing and fails, with
\* DuplicateError while fewer than MAX_PROJECTS projects are stored and with
\* LimitExceededError once MAX_PROJECTS are.
C7_UniqueNamesDuplicateBelowLimit ==
    /\ UniqueProjectNames
    /\ \A P \in StoredProjects(db), name \in ValidProjectNames,
          description \in ValidDescs :
            (AtPrompt /\ SameIgnoringCase(name, P.name)) =>
                LET r == create_project(db, name, description, CreationDay) IN
                /\ r.db = db
                /\ r.err = IF Len(list_projects(db)) < MAX_PROJECTS
                           THEN DuplicateError
                           ELSE LimitExceededError

\* a create_project that failed with DuplicateError
C7_Witness ==
    /\ last.op = "create_project"
    /\ last.err = DuplicateError
    /\ db.projects # {}

C9_UniqueTitlesPerProject ==
    /\ \A s \in Stored(db), t \in Stored(db) :
          (s.project = t.project /\ s.task.id # t.task.id) =>
              /\ ~SameIgnoringCase(s.task.title, t.task.title)
              /\ \A title \in ValidNames :
                    (AtPrompt /\ SameIgnoringCase(title, t.task.title)) =>
                        \A a \in UpdateTaskArgs :
                            LET r == update_task(db, s.project, s.task.id,
                                                 title, a[2], a[3], a[4]) IN
                            r.err = DuplicateError /\ r.db = db
    /\ AtPrompt => \A s \in Stored(db) :
          LET r == update_task(db, s.project, s.task.id, s.task.title,
                               NoneArg, NoStatus, NoDate) IN
          /\ r.err = Ok
          /\ Stored(r.db) = Stored(db)

\* an update_task that failed with DuplicateError in a project of two tasks
C9_Witness ==
    /\ last.op = "update_task"
    /\ last.err = DuplicateError
    /\ \E P \in StoredProjects(db) : Len(P.tasks) = 2

---------------------------------------------------------------------------
(* Cascade delete *)

\* C10: delete_project on a stored project removes the project and all its
\* task rows and leaves every other project and its tasks as they were, and
\* get_project on the id then fails with NotFoundError; on an unknown id it
\* fails with NotFoundError and changes nothing.
C10_DeleteProjectCascades ==
    AtPrompt => \A id \in ProjectIdInputs :
        LET r == delete_project(db, id) IN
        IF id \in {P.id : P \in StoredProjects(db)}
        THEN /\ r.err = Ok
             /\ get_project(r.db, id).err = NotFoundError
             /\ \A s \in Stored(db) :
                   s.project = id => \A row \in r.db.tasks : row.id # s.task.id
             /\ \A row \in r.db.tasks : row.project_id # id
             /\ {P \in StoredProjects(r.db) : TRUE} =
                   {P \in StoredProjects(db) : P.id # id}
        ELSE /\ r.err = NotFoundError
             /\ r.db = db

\* a delete_project that removed a project with its tasks while another
\* project's tasks stayed
C10_Witness ==
    /\ last.op = "delete_project"
    /\ last.err = Ok
    /\ last.removed >= 1
    /\ db.tasks # {}

---------------------------------------------------------------------------
(* Identifiers *)

\* each element of the sequence is greater than all elements before it
StrictlyIncreasing(ids) ==
    \A i \in DOMAIN ids, j \in DOMAIN ids : i < j => ids[i] < ids[j]

\* C11: the identifier given to a new project (task) is greater than every
\* identifier given to a project (task) before, so none is given twice.
C11_IdsNeverReused ==
    /\ StrictlyIncreasing(given.project)
    /\ StrictlyIncreasing(given.task)

\* C11 among the stored entities only: a new identifier is greater than the
\* identifiers of the projects (tasks) stored when it is given.
NewIdAboveStoredIds ==
    [][/\ given'.project # given.project =>
            \A p \in ProjectIds(db) :
                given'.project[Len(given'.project)] > p
       /\ given'.task # given.task =>
            \A r \in db.tasks : given'.task[Len(given'.task)] > r.id
      ]_vars

---------------------------------------------------------------------------
(* Frame of update_task *)

\* C12: update_task with only status provided succeeds, sets the status of
\* the task and leaves its title, description, deadline, id and created_at,
\* and every other stored task, as they were.
C12_StatusOnlyUpdateKeepsTheRest ==
    AtPrompt =>
        \A s \in Stored(db), status \in Statuses :
            LET r == update_task(db, s.project, s.task.id, NoneArg, NoneArg,
                                 status, NoDate) IN
            /\ r.err = Ok
            /\ Stored(r.db) =
                  (Stored(db) \ {s}) \cup
                  {[s EXCEPT !.task = [s.task EXCEPT !.status = status]]}
            /\ list_projects(r.db) =
                  [i \in DOMAIN list_projects(db) |->
                      [list_projects(db)[i] EXCEPT !.tasks =
                          list_projects(r.db)[i].tasks]]

\* a status-only update (change_task_status) succeeded on a task with a
\* deadline, in a project that holds another task
C12_Witness ==
    /\ last.op = "change_task_status"
    /\ last.err = Ok
    /\ \E s \in Stored(db), t \in Stored(db) :
          /\ s.task.id = last.ret
          /\ s.task.deadline # NoDate
          /\ t.project = s.project
          /\ t.task.id # s.task.id

---------------------------------------------------------------------------
(* Durable storage: round trip and upsert *)

\* the project objects handed to save_project: a stored project as loaded,
\* with the tasks overdue on some day closed by the auto-close pass
SavedProjects(d) ==
    {[P EXCEPT !.tasks = CloseTasks(P, today)] :
        P \in StoredProjects(d), today \in TodayInputs}

\* get_project after save_project(p) returns p: the same scalar fields and
\* the same tasks, compared on the given task fields
RoundTrip(d, p, fields) ==
    LET g == get_project(save_project(d, p), p.id) IN
    /\ g.err = Ok
    /\ g.project.id = p.id
    /\ g.project.name = p.name
    /\ g.project.description = p.description
    /\ g.project.created_at = p.created_at
    /\ Len(g.project.tasks) = Len(p.tasks)
    /\ \A i \in DOMAIN p.tasks : \A f \in fields :
          g.project.tasks[i][f] = p.tasks[i][f]

\* C13: after save_project(p), get_project(p.id) returns a project with the
\* same id, name, description and created_at and the same tasks, each equal
\* in id, title, status, deadline and closed_at.
C13_RoundTripKeepsClosedAt ==
    AtPrompt =>
        \A p \in SavedProjects(db) :
            RoundTrip(db, p, {"id", "title", "status", "deadline", "closed_at"})

\* C13 without closed_at: the round trip keeps the project's fields and the
\* id, title, description, status, deadline and created_at of every task.
RoundTripKeepsStoredColumns ==
    AtPrompt =>
        \A p \in SavedProjects(db) :
            RoundTrip(db, p, {"id", "title", "description", "status",
                              "deadline", "created_at"})

\* project objects a caller may pass to save_project: a stored project as
\* loaded, with another name, without one of its tasks, with one of its
\* tasks in another status, with its overdue tasks closed, and a new project
\* under an unused id
UpsertProjects(d) ==
    SavedProjects(d) \cup
    UNION {{P, [P EXCEPT !.name = sc \o sc]}
            \cup {[P EXCEPT !.tasks = RemoveAt(@, i)] : i \in DOMAIN P.tasks}
            \cup {[P EXCEPT !.tasks[i].status = "doing"] : i \in DOMAIN P.tasks}
           : P \in StoredProjects(d)}
        \cup {Project(get_next_project_id(d), sc \o sc, <<>>, CreationDay)}

\* the columns of a task that the table "tasks" holds
TaskColumns == {"id", "title", "description", "status", "deadline", "created_at"}

\* C14: after save_project(project) the stored project project.id has the
\* scalar fields and exactly the tasks of the passed project (each with
\* the passed values in every column of the table), and every other
\* project and its tasks are as before.
C14_SaveProjectReplacesTasks ==
    AtPrompt =>
        \A p \in UpsertProjects(db) :
            LET e == save_project(db, p) IN
                /\ RoundTrip(db, p, TaskColumns)
                /\ TaskRowsOf(e, p.id) =
                      {TaskRow(p.tasks[i], p.id) : i \in DOMAIN p.tasks}
                /\ {Q \in StoredProjects(e) : Q.id # p.id} =
                      {Q \in StoredProjects(db) : Q.id # p.id}

\* a save_project that dropped one stored task of a project and kept
\* another (made by delete_task), while another project is stored
C14_Witness ==
    /\ last.op = "delete_task"
    /\ last.err = Ok
    /\ last.removed = 1
    /\ db.tasks # {}
    /\ Cardinality(db.projects) = 2

---------------------------------------------------------------------------
(* Failed calls *)

\* the errors of the service layer
ServiceErrors ==
    {ValidationError, LimitExceededError, DuplicateError, NotFoundError}

\* C15: a service call that fails with ValidationError, LimitExceededError,
\* DuplicateError or NotFoundError leaves the stored projects and tasks, as
\* get_project and list_projects return them, as they were; here for
\* TaskService.update_task on the volatile store, with among its arguments
\* a valid new title together with an over-long description or an invalid
\* status.
C15_FailedUpdateLeavesVolatileStore ==
    \A key \in MemTaskKeys(mem), a \in MemUpdateArgs :
        LET r == mem_service_update_task(mem, key[1], key[2], a[1], a[2], a[3],
                                         a[4]) IN
        r.err \in ServiceErrors =>
            /\ mem_list_projects(r.mem) = mem_list_projects(mem)
            /\ mem_get_project(r.mem, key[1]) = mem_get_project(mem, key[1])

\* C15 on the durable store: every service call that fails leaves the
\* tables as they were.
FailedCallLeavesDurableStore ==
    [][last'.err \in ServiceErrors => db' = db]_vars

\* the task objects in the volatile store
MemTasks(m) == UNION {Range(P.tasks) : P \in m.projects}

\* C16: when Task.update_task raises ValidationError, no field of the task
\* has changed; a field that is not provided is never changed.
C16_EntityUpdateValidatesFirst ==
    \A task \in MemTasks(mem), a \in MemUpdateArgs :
        LET r == task_update_task(task, a[1], a[2], a[3], a[4]) IN
        /\ r.err = ValidationError => r.task = task
        /\ a[1] = NoneArg => r.task.title = task.title
        /\ a[2] = NoneArg => r.task.description = task.description
        /\ a[3] = NoStatus => r.task.status = task.status
        /\ a[4] = NoDate => r.task.deadline = task.deadline

\* C16 as the code has it: a field that is not provided is never changed,
\* a call that succeeds assigns every provided field, and a call that
\* raises has assigned no invalid value.
EntityUpdateKeepsUnprovidedFields ==
    \A task \in MemTasks(mem), a \in MemUpdateArgs :
        LET r == task_update_task(task, a[1], a[2], a[3], a[4]) IN
        /\ a[1] = NoneArg => r.task.title = task.title
        /\ a[2] = NoneArg => r.task.description = task.description
        /\ a[3] = NoStatus => r.task.status = task.status
        /\ a[4] = NoDate => r.task.deadline = task.deadline
        /\ r.task.id = task.id
        /\ r.task.created_at = task.created_at
        /\ r.err = Ok =>
              /\ a[1] # NoneArg => r.task.title = a[1]
              /\ a[2] # NoneArg => r.task.description = a[2]
              /\ a[3] # NoStatus => r.task.status = a[3]
              /\ a[4] # NoDate => r.task.deadline = a[4]
        /\ validate_task_title(r.task.title)
        /\ validate_task_description(r.task.description)
        /\ r.task.status \in Statuses

\* C11 on the volatile store: the ids its counters give only grow.
VolatileIdsNeverReused ==
    /\ StrictlyIncreasing(given.project)
    /\ StrictlyIncreasing(given.task)

---------------------------------------------------------------------------
(* The project limit after a delete *)

\* C17: the project limit counts the projects stored now: right after a
\* delete_project that leaves fewer than MAX_PROJECTS projects,
\* create_project with a valid name that no stored project holds succeeds
\* and stores one more project.
C17_LimitCountsStoredProjects ==
    (/\ last.op = "delete_project"
     /\ last.err = Ok
     /\ Len(list_projects(db)) < MAX_PROJECTS) =>
        \A name \in ValidProjectNames, description \in ValidDescs :
            (\A P \in StoredProjects(db) : ~SameIgnoringCase(name, P.name)) =>
                LET r == create_project(db, name, description, CreationDay) IN
                /\ r.err = Ok
                /\ Len(list_projects(r.db)) = Len(list_projects(db)) + 1
                /\ get_project(r.db, r.ret).project.name = name

\* a delete_project on a store that held MAX_PROJECTS projects (where
\* create_project fails with LimitExceededError, C6) has succeeded
C17_Witness ==
    /\ last.op = "delete_project"
    /\ last.err = Ok
    /\ Len(list_projects(db)) = MAX_PROJECTS - 1

---------------------------------------------------------------------------
(* Status transitions *)

\* status arguments outside todo, doing, done
BadStatuses == {BadStatus, NoStatus, "DONE", ""}

\* C20: change_task_status on a stored task, whatever its status, succeeds
\* for each of todo, doing, done and stores that status, leaving the rest
\* as it was; for any other status it fails with ValidationError and
\* changes nothing.
C20_AnyStatusToAnyStatus ==
    AtPrompt =>
        \A s \in Stored(db) :
            /\ \A new_status \in Statuses :
                  LET r == change_task_status(db, s.project, s.task.id,
                                              new_status) IN
                  /\ r.err = Ok
                  /\ Stored(r.db) =
                        (Stored(db) \ {s}) \cup
                        {[s EXCEPT !.task = [s.task EXCEPT !.status = new_status]]}
            /\ \A new_status \in BadStatuses :
                  LET r == change_task_status(db, s.project, s.task.id,
                                              new_status) IN
                  /\ r.err = ValidationError
                  /\ r.db = db

\* a change_task_status that stored "todo", the first status of the order,
\* while another stored task is "done"
C20_Witness ==
    /\ last.op = "change_task_status"
    /\ last.err = Ok
    /\ \E s \in Stored(db), t \in Stored(db) :
          /\ s.task.id = last.ret
          /\ s.task.status = "todo"
          /\ t.task.status = "done"

---------------------------------------------------------------------------
(* The scheduler *)

\* the scheduler process has ended
SchedStopped == sched.pc \in {"crashed", "terminated"}

\* C18: a persistence error raised by one invocation of the job does not
\* end the scheduler loop.
C18_JobErrorNotFatal ==
    sched.cause = "job" => ~SchedStopped

\* C19: the scheduler initializes the store once, before any invocation of
\* the job; it invokes the job exactly when run_pending finds the interval
\* elapsed, with the current date; and, unless the process ends, it invokes
\* the job again and again.
C19_InitOnceThenJobForever ==
    /\ [](sched.inits <= 1)
    /\ [](sched.ran => sched.inits = 1)
    /\ [][(sched.pc = "run_pending" /\ sched'.pc \in {"sleep", "crashed"}) =>
            (sched'.ran <=> JobDue(sched))]_vars
    /\ [][(sched.pc = "run_pending" /\ sched'.pc = "sleep" /\ sched'.ran) =>
            db' = autoclose_overdue_tasks(db, sched.today).db]_vars
    /\ []<>(sched.ran \/ SchedStopped)

\* the job has run after init_db and closed an overdue task
C19_Witness ==
    /\ sched.ran
    /\ sched.pc = "sleep"
    /\ sched.inits = 1
    /\ \E r \in db.tasks :
          r.status = "done" /\ r.deadline # NoDate /\ r.deadline < sched.today
    /\ \E d \in SchedStores : d.projects = db.projects /\ d.tasks # db.tasks

---------------------------------------------------------------------------
(* Listing *)

\* filter values outside todo, doing, done that are not the empty string
BadFilters == {BadStatus, "DONE", " "}

\* ret is the sequence of the tasks of project P that satisfy Keep, in the
\* order in which P holds them
TasksInOrder(ret, P, Keep(_)) ==
    /\ Range(ret) = {t \in Range(P.tasks) : Keep(t)}
    /\ Len(ret) = Cardinality(Range(ret))
    /\ \A i \in DOMAIN ret, j \in DOMAIN ret :
          i < j => TaskIndex(P, ret[i].id) < TaskIndex(P, ret[j].id)

\* list_tasks with a valid filter returns exactly the project's tasks of
\* that status, and without a filter all of them, in the project's order
ListsTasksOf(P) ==
    /\ \A f \in Statuses :
          LET r == list_tasks(db, P.id, f) IN
          /\ r.err = Ok
          /\ TasksInOrder(r.ret, P, LAMBDA t : t.status = f)
    /\ LET r == list_tasks(db, P.id, NoStatus) IN
          /\ r.err = Ok
          /\ r.ret = P.tasks

\* C21: list_tasks fails with ValidationError for every provided filter
\* that is not one of todo, doing, done, the empty string included; with a
\* valid filter it returns exactly the project's tasks of that status, and
\* without a filter all tasks, in the project's task order.
C21_ListTasksRejectsEveryBadFilter ==
    AtPrompt =>
        \A P \in StoredProjects(db) :
            /\ \A f \in BadFilters \cup {""} :
                  list_tasks(db, P.id, f).err = ValidationError
            /\ ListsTasksOf(P)

\* C21 as the code has it: the empty string counts as no filter and returns
\* all tasks; every other invalid filter fails with ValidationError.
ListTasksEmptyFilterIsNoFilter ==
    AtPrompt =>
        \A P \in StoredProjects(db) :
            /\ \A f \in BadFilters :
                  list_tasks(db, P.id, f).err = ValidationError
            /\ LET r == list_tasks(db, P.id, "") IN
                  r.err = Ok /\ r.ret = P.tasks
            /\ ListsTasksOf(P)

---------------------------------------------------------------------------
(* Id generation of the durable backend *)

\* the project saved under a newly generated project id
NewProject(d) == Project(get_next_project_id(d), sc, <<>>, CreationDay)

\* a stored project with a task appended under a newly generated task id
WithNewTask(d, P) ==
    [P EXCEPT !.tasks =
        Append(@, Task(get_next_task_id(d), sc, <<>>, "todo", NoDate,
                       CreationDay))]

\* the value returned by a get_next call is the id of no stored project
\* (task), and a call that follows the save of an entity under that value
\* returns another value
NextIdFreshAndNewAfterSave ==
    /\ get_next_project_id(db) \notin ProjectIds(db)
    /\ get_next_task_id(db) \notin {r.id : r \in db.tasks}
    /\ get_next_project_id(save_project(AfterGetNextId(db), NewProject(db)))
          # get_next_project_id(db)
    /\ \A P \in StoredProjects(db) :
          get_next_task_id(save_project(AfterGetNextId(db), WithNewTask(db, P)))
              # get_next_task_id(db)

\* C22: get_next_project_id and get_next_task_id each return a fresh unique
\* id and advance the id-generation state of the backend: two successive
\* calls, with or without a save in between, never return the same value,
\* and the value returned is the id of no stored project (task).
C22_NextIdAdvancesOnEveryCall ==
    /\ NextIdFreshAndNewAfterSave
    /\ get_next_project_id(AfterGetNextId(db)) # get_next_project_id(db)
    /\ get_next_task_id(AfterGetNextId(db)) # get_next_task_id(db)

\* C22 as the code has it: the value is fresh with respect to the stored
\* ids and changes once an entity has been saved under it, but two calls
\* with no save in between return the same value.
NextIdRepeatsUntilSaved ==
    /\ NextIdFreshAndNewAfterSave
    /\ get_next_project_id(AfterGetNextId(db)) = get_next_project_id(db)
    /\ get_next_task_id(AfterGetNextId(db)) = get_next_task_id(db)

---------------------------------------------------------------------------
(* The two backends under the services *)

\* what list_projects shows of a sequence of projects: ids, names,
\* descriptions and the tasks with their columns
Listing(projects) ==
    [i \in DOMAIN projects |->
        [id |-> projects[i].id, name |-> projects[i].name,
         description |-> projects[i].description,
         tasks |-> [j \in DOMAIN projects[i].tasks |->
                       [f \in TaskColumns |-> projects[i].tasks[j][f]]]]]

\* C23: the volatile and the durable backend are interchangeable under the
\* services: both provide the methods of the repository, and after any
\* sequence of service calls made on each from an empty store, every call
\* has returned the same result or the same kind of error on both and
\* list_projects yields the same projects and tasks on both.
C23_BackendsInterchangeable ==
    /\ RepositoryMethods \subseteq SqlAlchemyStorageMethods
    /\ RepositoryMethods \subseteq InMemoryStorageMethods
    /\ last # Idle => last.volatile = last.err
    /\ Listing(mem_list_projects(mem)) = Listing(list_projects(db))

\* C23 as the code has it: the volatile backend lacks save_project,
\* get_next_project_id and get_next_task_id; the two agree on the calls
\* that fail before a write, every call that succeeds with a write on the
\* durable store ends in AttributeError on the volatile one, and the
\* volatile store stays empty.
VolatileServiceWritesFail ==
    /\ RepositoryMethods \subseteq SqlAlchemyStorageMethods
    /\ RepositoryMethods \ InMemoryStorageMethods =
          {"save_project", "get_next_project_id", "get_next_task_id"}
    /\ mem = EmptyMem
    /\ last # Idle =>
          /\ last.err = ValidationError /\ last.op = "create_project"
                => last.volatile = ValidationError
          /\ last.err = Ok /\ last.op = "create_project"
                => last.volatile = AttributeError
          /\ last.volatile \in {Ok, ValidationError, NotFoundError,
                                AttributeError}
          /\ last.volatile = Ok => last.op = "autoclose_overdue_tasks"

---------------------------------------------------------------------------
(* Entity invariants *)

\* a title that is neither empty nor blank and has at most 30 characters
TitleOk(title) ==
    /\ Len(title) \in 1..30
    /\ \E i \in DOMAIN title : title[i] # " "

\* a description of at most 150 characters
DescriptionOk(description) == Len(description) <= 150

\* every stored task has a valid title, description and status
StoredTasksValid ==
    \A s \in Stored(db) :
        /\ TitleOk(s.task.title)
        /\ DescriptionOk(s.task.description)
        /\ s.task.status \in {"todo", "doing", "done"}

\* create_task arguments that would store an invalid title, description or
\* status
BadCreate(a) ==
    ~TitleOk(a[1]) \/ ~DescriptionOk(a[2]) \/ a[3] \notin {"todo", "doing", "done"}

\* update_task arguments of which a provided one would store an invalid
\* title, description or status
BadUpdate(a) ==
    \/ a[1] # NoneArg /\ ~TitleOk(a[1])
    \/ a[2] # NoneArg /\ ~DescriptionOk(a[2])
    \/ a[3] # NoStatus /\ a[3] \notin {"todo", "doing", "done"}

\* every create_task on a stored project whose input would violate an
\* entity invariant fails with ValidationError and stores nothing
BadCreateFails ==
    AtPrompt =>
        \A P \in StoredProjects(db), a \in CreateTaskArgs :
            BadCreate(a) =>
                LET r == create_task(db, P.id, a[1], a[2], a[3], a[4],
                                     CreationDay) IN
                r.err = ValidationError /\ r.db = db

\* C24 as claimed: every stored task has a title that is not empty or blank
\* and has at most 30 characters, a description of at most 150 characters
\* and a status among todo, doing, done; a create_task or update_task whose
\* input would violate one of them fails with ValidationError.
C24_InvalidInputAlwaysValidationError ==
    /\ StoredTasksValid
    /\ BadCreateFails
    /\ AtPrompt =>
          \A s \in Stored(db), a \in UpdateTaskArgs :
              BadUpdate(a) =>
                  update_task(db, s.project, s.task.id, a[1], a[2], a[3],
                              a[4]).err = ValidationError

\* the new title is valid and another task of the project holds it
DuplicatesOther(s, title) ==
    /\ title # NoneArg
    /\ TitleOk(title)
    /\ \E t \in Stored(db) :
          /\ t.project = s.project
          /\ t.task.id # s.task.id
          /\ SameIgnoringCase(t.task.title, title)

\* C24 as amended: the stored tasks satisfy the entity invariants; a
\* create_task on a stored project or an update_task on a stored task whose
\* input would violate one of them fails and stores nothing, with
\* ValidationError, except that update_task fails with DuplicateError when
\* its new title is valid and held by another task of the project (the
\* title is checked before the description and the status).
C24_EntityInvariantsHold ==
    /\ StoredTasksValid
    /\ BadCreateFails
    /\ AtPrompt =>
          \A s \in Stored(db), a \in UpdateTaskArgs :
              BadUpdate(a) =>
                  LET r == update_task(db, s.project, s.task.id, a[1], a[2],
                                       a[3], a[4]) IN
                  /\ r.db = db
                  /\ r.err = IF DuplicatesOther(s, a[1]) THEN DuplicateError
                             ELSE ValidationError

\* an update_task on a stored task has failed with ValidationError in a
\* project that holds two tasks
C24_Witness ==
    /\ last.op = "update_task"
    /\ last.err = ValidationError
    /\ \E P \in StoredProjects(db) : Len(P.tasks) = 2

---------------------------------------------------------------------------
(* update_project *)

\* another stored project holds the name, letter case ignored
HeldByOther(project_id, name) ==
    \E Q \in StoredProjects(db) :
        Q.id # project_id /\ SameIgnoringCase(Q.name, name)

\* update_project on an unknown id fails with NotFoundError whatever the
\* other arguments are; a project may keep its name or change its letter
\* case only; a call that succeeds stores exactly the new name and
\* description and keeps the id, created_at and tasks of the project and
\* every other project
UpdateProjectFrame ==
    AtPrompt =>
        \A project_id \in ProjectIdInputs, a \in ProjectArgs :
            LET r == update_project(db, project_id, a[1], a[2])
                known == project_id \in {P.id : P \in StoredProjects(db)}
            IN  /\ ~known => r.err = NotFoundError /\ r.db = db
                /\ (/\ known
                    /\ SameIgnoringCase(get_project(db, project_id).project.name,
                                        a[1])
                    /\ DescriptionOk(a[2])) => r.err = Ok
                /\ (known /\ r.err = Ok) =>
                      LET before == get_project(db, project_id).project
                          after == get_project(r.db, project_id).project
                      IN  /\ after = [before EXCEPT !.name = a[1],
                                                    !.description = a[2]]
                          /\ {Q \in StoredProjects(r.db) : Q.id # project_id} =
                                {Q \in StoredProjects(db) : Q.id # project_id}
                          /\ Len(list_projects(r.db)) = Len(list_projects(db))

\* C25 as claimed: update_project fails with NotFoundError if the id is
\* unknown (before input validation) and with DuplicateError if a project
\* with a different id has the same name case-insensitively, leaving the
\* project unchanged; a project may keep its own name or change only its
\* letter case; on success the stored project has exactly the new name and
\* description and the same id, created_at and tasks.
C25_DuplicateNameAlwaysDuplicateError ==
    /\ UpdateProjectFrame
    /\ AtPrompt =>
          \A P \in StoredProjects(db), a \in ProjectArgs :
              HeldByOther(P.id, a[1]) =>
                  LET r == update_project(db, P.id, a[1], a[2]) IN
                  r.err = DuplicateError /\ r.db = db

\* C25 as amended: as claimed, except that the name held by another project
\* is rejected with DuplicateError when the description is valid, and with
\* ValidationError when it is over-long (the inputs are validated before
\* the names are compared); nothing is stored in either case.
C25_UpdateProjectChecksInOrder ==
    /\ UpdateProjectFrame
    /\ AtPrompt =>
          \A P \in StoredProjects(db), a \in ProjectArgs :
              HeldByOther(P.id, a[1]) =>
                  LET r == update_project(db, P.id, a[1], a[2]) IN
                  /\ r.db = db
                  /\ r.err = IF DescriptionOk(a[2]) THEN DuplicateError
                             ELSE ValidationError

\* an update_project has failed with DuplicateError while two projects are
\* stored
C25_Witness ==
    /\ last.op = "update_project"
    /\ last.err = DuplicateError
    /\ Cardinality(db.projects) = 2

---------------------------------------------------------------------------
(* Repeated passes *)

\* C26: over any run of repeated passes of the job between interactive
\* calls, change_task_status among them, the job transitions each task to
\* done at most once (and so never stamps a task a second time).
C26_JobClosesEachTaskOnce ==
    \A key \in Range(closures) : Occurrences(closures, key) = 1

\* C26 as the code has it: a pass closes exactly the stored tasks that are
\* overdue and not done at its start; a task is closed again after an
\* interactive call has moved it out of done.
JobClosesOpenOverdueTasks ==
    [][closures' # closures =>
        /\ {closures'[k] : k \in (Len(closures) + 1)..Len(closures')} =
              {<<s.project, s.task.id>> : s \in
                  {t \in Stored(db) : MustClose(t.task, sched.today)}}
        /\ \A k \in (Len(closures) + 1)..Len(closures') :
              \E s \in Stored(db') :
                  /\ <<s.project, s.task.id>> = closures'[k]
                  /\ s.task.status = "done"
      ]_vars

---------------------------------------------------------------------------
(* The pass beside the menu *)

\* this step is a save_project of the pass, for the project it names
PassSaves(project_id) ==
    /\ pass.pc = "loop"
    /\ pass'.i = pass.i + 1
    /\ db' # db
    /\ pass.projects[pass.i].id = project_id

\* C27: under any interleaving of a pass with delete_project and
\* create_project calls, a save_project of the pass brings no project back
\* into the store that delete_project has removed, and the number of stored
\* projects never exceeds MAX_PROJECTS.
C27_PassKeepsDeletedProjectsDeleted ==
    /\ [][\A project_id \in 1..MaxProjectId :
            PassSaves(project_id) => ProjectIds(db') \subseteq ProjectIds(db)
         ]_vars
    /\ [](Cardinality(db.projects) <= MAX_PROJECTS)

\* C27 as the code has it: a save_project of the pass stores the project as
\* the pass has read it, whether or not it is still stored, and so adds at
\* most one project to the store.
PassSaveStoresWhatItRead ==
    [][\A project_id \in 1..MaxProjectId :
          PassSaves(project_id) =>
              /\ project_id \in ProjectIds(db')
              /\ ProjectIds(db') = ProjectIds(db) \cup {project_id}
              /\ get_project(db', project_id).project.name =
                    pass.projects[pass.i].name
      ]_vars

\* C28: under any interleaving of a pass with create_task, update_task and
\* delete_task calls on the same project, the save_project of the pass
\* keeps every task stored in the project (a task created since the read is
\* not lost), stores no task that is not stored (a task deleted since the
\* read does not come back), and changes no field of a task except its
\* status, to done (a field updated since the read is not reverted).
C28_PassSaveKeepsConcurrentChanges ==
    [][\A project_id \in ProjectIds(db) :
          PassSaves(project_id) =>
              /\ \A r \in TaskRowsOf(db, project_id) :
                    \E q \in TaskRowsOf(db', project_id) :
                        /\ q.id = r.id
                        /\ q.title = r.title
                        /\ q.description = r.description
                        /\ q.deadline = r.deadline
                        /\ q.status \in {r.status, "done"}
              /\ \A q \in TaskRowsOf(db', project_id) :
                    \E r \in TaskRowsOf(db, project_id) : q.id = r.id
      ]_vars

\* C28 when the store has not changed since the read of the pass: the save
\* closes the overdue tasks of the project and changes nothing else.
PassSaveOnUnchangedProjectIsExact ==
    [][\A project_id \in ProjectIds(db) :
          (/\ PassSaves(project_id)
           /\ get_project(db, project_id).project = pass.projects[pass.i]) =>
              /\ \A r \in TaskRowsOf(db, project_id) :
                    \E q \in TaskRowsOf(db', project_id) :
                        /\ q.id = r.id
                        /\ q.title = r.title
                        /\ q.description = r.description
                        /\ q.deadline = r.deadline
                        /\ q.status \in {r.status, "done"}
              /\ \A q \in TaskRowsOf(db', project_id) :
                    \E r \in TaskRowsOf(db, project_id) : q.id = r.id
      ]_vars

---------------------------------------------------------------------------
(* closed_at *)

\* the task objects of the volatile store, each with its project id
MemStored(m) ==
    UNION {{[project |-> P.id, task |-> P.tasks[i]] : i \in DOMAIN P.tasks} :
           P \in m.projects}

\* closed_at is assigned only by autoclose_overdue_tasks, with the day of
\* the pass, to a task that was not done and that it sets to done; no
\* other call sets, changes or clears the closed_at of a task
OnlyTheJobStamps ==
    [][\A s \in MemStored(mem), t \in MemStored(mem') :
          (/\ s.project = t.project
           /\ s.task.id = t.task.id
           /\ s.task.closed_at # t.task.closed_at) =>
              /\ last'.op = "autoclose_overdue_tasks"
              /\ t.task.closed_at = last'.today
              /\ s.task.status # "done"
              /\ t.task.status = "done"
      ]_vars

\* a task object is created without closed_at
NewTaskHasNoStamp ==
    [][\A t \in MemStored(mem') :
          (\A s \in MemStored(mem) : s.task.id # t.task.id) =>
              t.task.closed_at = NoAttr
      ]_vars

DurableStoreHoldsNoClosedAt ==
    \A s \in Stored(db) : s.task.closed_at = NoAttr

---------------------------------------------------------------------------
(* The order of the checks of create_task *)

\* the first check of create_task that fails, in the order project
\* existence, validation of title, description, status and deadline, task
\* limit, duplicate title; "ok" when none fails
FirstFailingCheck(project_id, a) ==
    IF \A P \in StoredProjects(db) : P.id # project_id THEN NotFoundError
    ELSE IF BadCreate(a) \/ (a[4] # NoDate /\ ~IsDate(a[4])) THEN ValidationError
    ELSE IF Cardinality({s \in Stored(db) : s.project = project_id})
                >= MAX_TASKS_PER_PROJECT
    THEN LimitExceededError
    ELSE IF \E s \in Stored(db) :
                s.project = project_id /\ SameIgnoringCase(s.task.title, a[1])
    THEN DuplicateError
    ELSE Ok

\* C30: create_task reports the first failing check in the order project
\* existence (NotFoundError), validation (ValidationError), task limit
\* (LimitExceededError), duplicate title (DuplicateError), so a duplicate
\* title on a full project fails with LimitExceededError and with
\* DuplicateError only below the limit; a call that fails stores nothing
\* and is given no task id, a call that succeeds stores the task under the
\* next task id.
C30_CreateTaskChecksInOrder ==
    AtPrompt =>
        \A project_id \in ProjectIdInputs, a \in CreateTaskArgs :
            LET r == create_task(db, project_id, a[1], a[2], a[3], a[4],
                                 CreationDay) IN
            /\ r.err = FirstFailingCheck(project_id, a)
            /\ r.err # Ok =>
                  /\ r.db = db
                  /\ r.ret = 0
                  /\ get_next_task_id(r.db) = get_next_task_id(db)
            /\ r.err = Ok =>
                  /\ r.ret = get_next_task_id(db)
                  /\ \E s \in Stored(r.db) :
                        /\ s.project = project_id
                        /\ s.task.id = r.ret
                        /\ s.task.title = a[1]
                  /\ Cardinality(r.db.tasks) = Cardinality(db.tasks) + 1

\* a create_task has failed with DuplicateError while every project that
\* holds a task holds fewer tasks than the limit
C30_Witness ==
    /\ last.op = "create_task"
    /\ last.err = DuplicateError
    /\ db.tasks # {}
    /\ \A P \in StoredProjects(db) : Len(P.tasks) < MAX_TASKS_PER_PROJECT

====
